---- MODULE Spec2Model ----
(***************************************************************************)
(* serde_flexitos: registry of deserialize functions keyed by identifier,  *)
(* the single id-value pair ("tagged envelope") serializer, and the        *)
(* visitor that deserializes a trait object from such a pair.              *)
(***************************************************************************)
EXTENDS Integers, Sequences, FiniteSets, TLC

\* ------------------------------------------------------------------ bounds
\* Total number of register calls explored on the registry.
MaxRegs == 3
\* Largest number of entries of a map handed to the visitor.
MaxEntries == 2

\* ------------------------------------------------------------- data domain
\* Identifiers (Foo::ID, Bar::ID) and the deserialize functions registered
\* for them.
Ids == {"Foo", "Bar"}
Fns == {"de_Foo", "de_Bar"}

\* Concrete values behind the trait object: Foo(String), Bar(usize).
Values ==
  {[ty |-> "Foo", val |-> "A"], [ty |-> "Foo", val |-> "B"], [ty |-> "Bar", val |-> 0]}

\* What a format stores for a value or a key: a kind and the data.
Payloads == {[kind |-> "str", data |-> "A"], [kind |-> "num", data |-> 0]}
WireKeys ==
  {[kind |-> "str", data |-> "Foo"], [kind |-> "str", data |-> "Bar"], [kind |-> "num", data |-> 0]}
Entries == [key : WireKeys, value : Payloads]

RECURSIVE SeqsUpTo(_, _)
SeqsUpTo(S, n) ==
  IF n = 0 THEN {<<>>}
  ELSE LET shorter == SeqsUpTo(S, n - 1)
       IN  shorter \cup {Append(s, e) : s \in {t \in shorter : Len(t) = n - 1}, e \in S}

\* Maps a deserializer can present to the visitor, as entries in reading order.
Inputs == SeqsUpTo(Entries, MaxEntries)

\* Option<T>
None == <<>>
Some(x) == <<x>>
IsSome(o) == Len(o) = 1
Unwrap(o) == o[1]

\* Result<T, E>; errors are the message a format's error type carries.
NoVal == [ty |-> "none", val |-> "none"]
Ok(v) == [ok |-> TRUE, val |-> v, err |-> <<>>]
Err(e) == [ok |-> FALSE, val |-> NoVal, err |-> e]
NoRet == [ok |-> FALSE, val |-> NoVal, err |-> <<"pending">>]

\* ---------------------------------------------------------------- registry
\* GetError and its Display.
NotRegistered(id) == <<"NotRegistered", id>>
MultipleRegistrations(id) == <<"MultipleRegistrations", id>>
\* Display for GetError that leaves the identifier out of the message.
GetError_fmt_noid(e) ==
  IF e[1] = "NotRegistered"
  THEN <<"no deserialize function was registered">>
  ELSE <<"multiple deserialize functions were registered">>

GetError_fmt(e) ==
  IF e[1] = "NotRegistered"
  THEN <<"no deserialize function was registered for id", e[2]>>
  ELSE <<"multiple deserialize functions were registered for id", e[2]>>

\* BTreeMap::new()
MapRegistry_new == <<>>

\* register written as a plain insert: the last registration replaces the slot.
MapRegistry_register_insert(m, id, f) ==
  [k \in DOMAIN m \cup {id} |-> IF k = id THEN Some(f) ELSE m[k]]

\* register that toggles the slot: registering into a tombstone revives it.
MapRegistry_register_toggle(m, id, f) ==
  IF id \in DOMAIN m
  THEN [m EXCEPT ![id] = IF IsSome(@) THEN None ELSE Some(f)]
  ELSE [k \in DOMAIN m \cup {id} |-> IF k = id THEN Some(f) ELSE m[k]]

\* register that keeps a live slot when the same function is registered again.
MapRegistry_register_dedup(m, id, f) ==
  IF id \in DOMAIN m
  THEN [m EXCEPT ![id] = IF @ = Some(f) THEN @ ELSE None]
  ELSE [k \in DOMAIN m \cup {id} |-> IF k = id THEN Some(f) ELSE m[k]]

\* register that keeps the first registration and ignores later ones.
MapRegistry_register_first(m, id, f) ==
  IF id \in DOMAIN m THEN m
  ELSE [k \in DOMAIN m \cup {id} |-> IF k = id THEN Some(f) ELSE m[k]]

\* entry(id).and_modify(|v| { v.take(); }).or_insert_with(|| Some(f))
MapRegistry_register(m, id, f) ==
  IF id \in DOMAIN m
  THEN [m EXCEPT ![id] = None]
  ELSE [k \in DOMAIN m \cup {id} |-> IF k = id THEN Some(f) ELSE m[k]]

\* get_deserialize_fn that reports a tombstoned slot as not registered.
MapRegistry_get_deserialize_fn_flat(m, id) ==
  IF id \in DOMAIN m /\ IsSome(m[id])
  THEN [ok |-> TRUE, fn |-> Unwrap(m[id]), err |-> <<>>]
  ELSE [ok |-> FALSE, fn |-> "none", err |-> NotRegistered(id)]

\* get_deserialize_fn with the two error arms exchanged.
MapRegistry_get_deserialize_fn_swapped(m, id) ==
  IF id \notin DOMAIN m THEN [ok |-> FALSE, fn |-> "none", err |-> MultipleRegistrations(id)]
  ELSE IF ~IsSome(m[id]) THEN [ok |-> FALSE, fn |-> "none", err |-> NotRegistered(id)]
  ELSE [ok |-> TRUE, fn |-> Unwrap(m[id]), err |-> <<>>]

\* match self.deserialize_fns.get(&id)
MapRegistry_get_deserialize_fn(m, id) ==
  IF id \notin DOMAIN m THEN [ok |-> FALSE, fn |-> "none", err |-> NotRegistered(id)]
  ELSE IF ~IsSome(m[id]) THEN [ok |-> FALSE, fn |-> "none", err |-> MultipleRegistrations(id)]
  ELSE [ok |-> TRUE, fn |-> Unwrap(m[id]), err |-> <<>>]

\* --------------------------------------------------------------- serialize
\* &'static str identifiers serialize as a string key.
SerializeId(id) == [kind |-> "str", data |-> id]
\* Foo(String) serializes as its string, Bar(usize) as its number.
SerializeValue(v) ==
  IF v.ty = "Foo" THEN [kind |-> "str", data |-> v.val]
  ELSE [kind |-> "num", data |-> v.val]

\* serialize that opens and closes the map without writing the entry.
SerializeTraitObject_serialize_noentry(id, v) == <<>>

\* serialize_map(Some(1)); serialize_entry(&id, &Wrap(trait_object)); end()
SerializeTraitObject_serialize(id, v) ==
  <<[key |-> SerializeId(id), value |-> SerializeValue(v)]>>

\* ------------------------------------------------------------- deserialize
\* <&str>::deserialize of the key.
DeserializeId(key) ==
  IF key.kind = "str" THEN [ok |-> TRUE, id |-> key.data, err |-> <<>>]
  ELSE [ok |-> FALSE, id |-> "none", err |-> <<"invalid type", key.kind, "expected a borrowed string">>]

\* The registered closures: erased_serde::deserialize::<T>(d) boxed as the
\* trait object.
ApplyDeserializeFn(f, payload) ==
  IF f = "de_Foo"
  THEN IF payload.kind = "str" THEN Ok([ty |-> "Foo", val |-> payload.data])
       ELSE Err(<<"invalid type", payload.kind, "expected a string">>)
  ELSE IF payload.kind = "num" THEN Ok([ty |-> "Bar", val |-> payload.data])
       ELSE Err(<<"invalid type", payload.kind, "expected usize">>)

\* The function that deserializes concrete type ty.
DeserializeFnOf(ty) == IF ty = "Foo" THEN "de_Foo" ELSE "de_Bar"

\* IdToDeserializeFn::deserialize: read the id, look it up, map the GetError
\* with de::Error::custom.  lookups counts the registry lookups performed.
IdToDeserializeFn_deserialize(m, key) ==
  LET idr == DeserializeId(key)
  IN  IF ~idr.ok THEN [ok |-> FALSE, fn |-> "none", err |-> idr.err, lookups |-> 0]
      ELSE LET g == MapRegistry_get_deserialize_fn(m, idr.id)
           IN  IF g.ok THEN [ok |-> TRUE, fn |-> g.fn, err |-> <<>>, lookups |-> 1]
               ELSE [ok |-> FALSE, fn |-> "none", err |-> GetError_fmt(g.err), lookups |-> 1]

\* DeserializeWithFn that replaces a failed payload by an empty value.
DeserializeWithFn_deserialize_swallow(f, payload) ==
  LET r == ApplyDeserializeFn(f, payload)
  IN  IF r.ok THEN r ELSE Ok(NoVal)

\* DeserializeWithFn that reports every failure with a message of its own.
DeserializeWithFn_deserialize_opaque(f, payload) ==
  LET r == ApplyDeserializeFn(f, payload)
  IN  IF r.ok THEN r ELSE Err(<<"failed to deserialize trait object">>)

\* DeserializeWithFn::deserialize: self.0(&mut erased).map_err(de::Error::custom)
DeserializeWithFn_deserialize(f, payload) ==
  LET r == ApplyDeserializeFn(f, payload)
  IN  IF r.ok THEN r ELSE Err(r.err)

\* DeserializeTraitObject::expecting, used as the message of custom(&self).
DeserializeTraitObject_expecting(name) == <<"an id-value pair for Box<dyn>", name>>

\* next_key that looks up the empty identifier when the map has no key.
DeserializeTraitObject_next_key_default(m, name, inp, read) ==
  LET r == IF read >= Len(inp)
           THEN IdToDeserializeFn_deserialize(m, SerializeId(""))
           ELSE IdToDeserializeFn_deserialize(m, inp[read + 1].key)
  IN  IF r.ok
      THEN [pc |-> "AwaitValue", res |-> NoRet, fn |-> Some(r.fn),
            read |-> read + 1, lookups |-> r.lookups]
      ELSE [pc |-> "Failed", res |-> Err(r.err), fn |-> None,
            read |-> read + 1, lookups |-> r.lookups]

\* next_key that resolves the key of the map's last entry.
DeserializeTraitObject_next_key_stale(m, name, inp, read) ==
  IF read >= Len(inp)
  THEN [pc |-> "Failed", res |-> Err(DeserializeTraitObject_expecting(name)), fn |-> None,
        read |-> read, lookups |-> 0]
  ELSE LET r == IdToDeserializeFn_deserialize(m, inp[Len(inp)].key)
       IN  IF r.ok
           THEN [pc |-> "AwaitValue", res |-> NoRet, fn |-> Some(r.fn),
                 read |-> read + 1, lookups |-> r.lookups]
           ELSE [pc |-> "Failed", res |-> Err(r.err), fn |-> None,
                 read |-> read + 1, lookups |-> r.lookups]

\* visit_map up to the let-else: take the next key with IdToDeserializeFn as
\* its seed; an exhausted map is the error custom(&self), a failed seed is
\* returned by the ? operator.
DeserializeTraitObject_next_key(m, name, inp, read) ==
  IF read >= Len(inp)
  THEN [pc |-> "Failed", res |-> Err(DeserializeTraitObject_expecting(name)), fn |-> None,
        read |-> read, lookups |-> 0]
  ELSE LET r == IdToDeserializeFn_deserialize(m, inp[read + 1].key)
       IN  IF r.ok
           THEN [pc |-> "AwaitValue", res |-> NoRet, fn |-> Some(r.fn),
                 read |-> read + 1, lookups |-> r.lookups]
           ELSE [pc |-> "Failed", res |-> Err(r.err), fn |-> None,
                 read |-> read + 1, lookups |-> r.lookups]

\* ------------------------------------------------------------------- state
VARIABLES
  deserialize_fns,    \* MapRegistry.deserialize_fns
  trait_object_name,  \* MapRegistry.trait_object_name
  calls,              \* history: per identifier, the functions passed to register
  wire,               \* map written by the last serialize_trait_object, not yet read
  src,                \* the (id, value) that map was serialized from
  pc,                 \* position of the running deserialize_trait_object call
  input,              \* the map the deserializer presents to visit_map
  deserialize_fn,     \* visit_map's local: the function resolved from the key
  keysRead,           \* keys taken from the map access
  valuesRead,         \* values taken from the map access
  lookups,            \* get_deserialize_fn calls made by this call
  fnCalls,            \* deserialize function invocations made by this call
  visitRes,           \* what visit_map returned
  ret                 \* what deserialize_trait_object returned

\* State of the other entry points of the crate; each is a record of the
\* call in progress, with op = "none" when there is none.
VARIABLES
  coll,               \* DeserializeVecWithTraitObject / DeserializeMapWith call
  perm,               \* PermissiveDeserializeTraitObject call
  first_fns,          \* FirstMapRegistry.deserialize_fns
  first_calls,        \* history: per identifier, the functions passed to its register
  first,              \* deserialize_trait_object call on the FirstMapRegistry
  enc                 \* SerializeTraitObject::serialize call against an encoder

\* Shared readers of the registry, a second registry, a list of registrations
\* applied in some order, and an Ident operation.
VARIABLES
  phase,              \* "build" while the registry is borrowed mutably, then "shared"
  readers,            \* per reader thread, its get_deserialize_fn or decode call
  r2_fns,             \* deserialize_fns of a second MapRegistry
  two,                \* decode call with one of the two registries passed to it
  ordering,           \* registrations applied in list order and in a permuted order
  ident               \* Ident serialization, deserialization or Id::ID evaluation

regVars == <<deserialize_fns, trait_object_name, calls>>
moreVars == <<phase, readers, r2_fns, two, ordering, ident>>
extVars == <<coll, perm, first_fns, first_calls, first, enc, moreVars>>

serVars == <<wire, src>>
deVars == <<pc, input, deserialize_fn, keysRead, valuesRead, lookups, fnCalls,
            visitRes, ret>>
vars == <<regVars, serVars, deVars, extVars>>

NoWire == <<[key |-> [kind |-> "none", data |-> "none"], value |-> [kind |-> "none", data |-> "none"]]>>
NoSrc == [id |-> "none", v |-> NoVal]

TotalCalls == Len(calls["Foo"]) + Len(calls["Bar"])

NoCall == [op |-> "none"]

\* Threads that share &registry once it is built; a thread with no call.
MaxReaders == 2
Readers == 1..MaxReaders
NoGet == [ok |-> FALSE, fn |-> "none", err |-> <<"pending">>]
IdleReader ==
  [pc |-> "idle", op |-> "none", id |-> "none", input |-> <<>>, strict |-> FALSE,
   fn |-> None, keys |-> 0, values |-> 0, got |-> NoGet, res |-> NoRet, ret |-> NoRet]

\* FirstMapRegistry::new: an empty map; no call of the other entry points.
ExtInit ==
  /\ phase = "build"
  /\ readers = [r \in Readers |-> IdleReader]
  /\ r2_fns = MapRegistry_new
  /\ two = NoCall
  /\ ordering = NoCall
  /\ ident = NoCall
  /\ coll = NoCall
  /\ perm = NoCall
  /\ first_fns = <<>>
  /\ first_calls = [i \in Ids |-> <<>>]
  /\ first = NoCall
  /\ enc = NoCall

\* MapRegistry::new("ExampleObj"); nothing serialized; no call running.
Init ==
  /\ ExtInit
  /\ deserialize_fns = MapRegistry_new
  /\ trait_object_name = "ExampleObj"
  /\ calls = [i \in Ids |-> <<>>]
  /\ wire = NoWire
  /\ src = NoSrc
  /\ pc = "idle"
  /\ input = <<>>
  /\ deserialize_fn = None
  /\ keysRead = 0
  /\ valuesRead = 0
  /\ lookups = 0
  /\ fnCalls = 0
  /\ visitRes = NoRet
  /\ ret = NoRet

\* ----------------------------------------------------------------- actions
\* Registry::register on the MapRegistry (needs &mut: no call is running).
register(id, f) ==
  /\ pc = "idle"
  /\ TotalCalls < MaxRegs
  /\ deserialize_fns' = MapRegistry_register(deserialize_fns, id, f)
  /\ calls' = [calls EXCEPT ![id] = Append(@, f)]
  /\ UNCHANGED <<trait_object_name, serVars, deVars, extVars>>

\* serialize_trait_object(serializer, id, trait_object)
serialize_trait_object(id, v) ==
  /\ pc = "idle"
  /\ wire = NoWire
  /\ wire' = SerializeTraitObject_serialize(id, v)
  /\ src' = [id |-> id, v |-> v]
  /\ UNCHANGED <<regVars, deVars, extVars>>

\* Registry::deserialize_trait_object -> DeserializeTraitObject::deserialize
\* -> deserializer.deserialize_map(self): the visitor is entered with a map.
BeginCall(inp) ==
  /\ pc' = "AwaitKey"
  /\ input' = inp
  /\ UNCHANGED <<deserialize_fn, keysRead, valuesRead, lookups, fnCalls, visitRes, ret>>

\* deserialize_trait_object on the map serialize_trait_object wrote.
deserialize_wire ==
  /\ pc = "idle"
  /\ wire # NoWire
  /\ BeginCall(wire)
  /\ wire' = NoWire
  /\ UNCHANGED <<regVars, src, extVars>>

\* deserialize_trait_object on any map.
deserialize_trait_object(inp) ==
  /\ pc = "idle"
  /\ wire = NoWire
  /\ BeginCall(inp)
  /\ UNCHANGED <<regVars, serVars, extVars>>

\* visit_map, first statement: map.next_key_seed(IdToDeserializeFn(self.0))?
\* with the let-else on an exhausted map.
visit_map_key ==
  /\ pc = "AwaitKey"
  /\ LET r == DeserializeTraitObject_next_key(deserialize_fns, trait_object_name, input, keysRead)
     IN  /\ pc' = r.pc
         /\ visitRes' = r.res
         /\ deserialize_fn' = r.fn
         /\ keysRead' = r.read
         /\ lookups' = lookups + r.lookups
  /\ UNCHANGED <<regVars, serVars, input, valuesRead, fnCalls, ret, extVars>>

\* visit_map, last statement: map.next_value_seed(DeserializeWithFn(deserialize_fn))
visit_map_value ==
  /\ pc = "AwaitValue"
  /\ LET r == DeserializeWithFn_deserialize(Unwrap(deserialize_fn), input[valuesRead + 1].value)
     IN  /\ visitRes' = r
         /\ pc' = IF r.ok THEN "Done" ELSE "Failed"
  /\ valuesRead' = valuesRead + 1
  /\ fnCalls' = fnCalls + 1
  /\ UNCHANGED <<regVars, serVars, input, deserialize_fn, keysRead, lookups, ret, extVars>>

\* What deserialize_map returns once visit_map has returned: the visitor's
\* error, or, from a deserializer that checks it (strict), an error for
\* entries the visitor did not read, or the visitor's value.  Whether the
\* deserializer checks is a property of the format, outside this crate.
Deserializer_end(res, inp, read, strict) ==
  IF ~res.ok THEN res
  ELSE IF strict /\ read < Len(inp) THEN Err(<<"trailing entries">>)
  ELSE res

deserialize_return(strict) ==
  /\ pc \in {"Done", "Failed"}
  /\ ret = NoRet
  /\ ret' = Deserializer_end(visitRes, input, keysRead, strict)
  /\ UNCHANGED <<regVars, serVars, pc, input, deserialize_fn, keysRead, valuesRead,
                 lookups, fnCalls, visitRes, extVars>>

\* The caller drops the result; the registry can be borrowed again.
finish ==
  /\ ret # NoRet
  /\ pc' = "idle"
  /\ input' = <<>>
  /\ deserialize_fn' = None
  /\ keysRead' = 0
  /\ valuesRead' = 0
  /\ lookups' = 0
  /\ fnCalls' = 0
  /\ visitRes' = NoRet
  /\ ret' = NoRet
  /\ src' = NoSrc
  /\ UNCHANGED <<regVars, wire, extVars>>

Next ==
  \/ \E id \in Ids, f \in Fns : register(id, f)
  \/ \E id \in Ids, v \in Values : serialize_trait_object(id, v)
  \/ deserialize_wire
  \/ \E inp \in Inputs : deserialize_trait_object(inp)
  \/ visit_map_key
  \/ visit_map_value
  \/ \E strict \in BOOLEAN : deserialize_return(strict)
  \/ finish

Spec == Init /\ [][Next]_vars

\* ------------------------------------------------- collection adapters
\* Longest sequence, and longest map, handed to the collection visitors.
MaxSeqLen == 2
MaxMapLen == 2
\* Register calls explored before a collection is deserialized.
MaxCollRegs == 2

\* DeserializeTraitObject::visit_map from entry to return, with the number
\* of keys it took from the map.
DeserializeTraitObject_visit_map(m, name, inp) ==
  LET k == DeserializeTraitObject_next_key(m, name, inp, 0)
  IN  IF k.pc = "Failed" THEN [res |-> k.res, keys |-> k.read]
      ELSE [res |-> DeserializeWithFn_deserialize(Unwrap(k.fn), inp[1].value), keys |-> k.read]

\* DeserializeTraitObject::deserialize: deserializer.deserialize_map(self).
DeserializeTraitObject_deserialize(m, name, inp, strict) ==
  LET v == DeserializeTraitObject_visit_map(m, name, inp)
  IN  Deserializer_end(v.res, inp, v.keys, strict)

\* ExampleObj::id of a value: the ID of its concrete type.
IdOf(v) == v.ty

\* Serialize for dyn ExampleObj, element by element of a Vec.
SerializeVec(vals) == [i \in 1..Len(vals) |-> SerializeTraitObject_serialize(IdOf(vals[i]), vals[i])]

\* Envelopes offered as elements of a sequence: no entry or one entry.

\* Option<usize> size hints: none, small ones, and one beyond what an
\* allocation can hold.
Hints == {None, Some(1), Some(268435456)}

\* isize::MAX and the size of a Box<dyn Trait> in bytes, for a target with
\* 32-bit pointers.
IsizeMax == 2147483647
BoxSize == 8

\* Vec::with_capacity / HashMap::with_capacity panic ("capacity overflow")
\* when the storage for the requested capacity exceeds isize::MAX bytes.
CapacityOverflow(capacity) == capacity > IsizeMax \div BoxSize

Max2(a, b) == IF a >= b THEN a ELSE b

\* Vec::new(), Vec::with_capacity(c), Vec::push with amortized growth.
Vec_new == [items |-> <<>>, cap |-> 0]
Vec_with_capacity(c) == [items |-> <<>>, cap |-> c]
Vec_push(vec, x) ==
  [items |-> Append(vec.items, x),
   cap |-> IF Len(vec.items) < vec.cap THEN vec.cap
           ELSE Max2(Max2(2 * vec.cap, Len(vec.items) + 1), 4)]

\* Outcome of a collection visitor.
CollOk(c, cap, n) == [ok |-> TRUE, panic |-> FALSE, val |-> c, cap |-> cap, err |-> <<>>, read |-> n]
CollErr(e, n) == [ok |-> FALSE, panic |-> FALSE, val |-> <<>>, cap |-> 0, err |-> e, read |-> n]
CollPanic == [ok |-> FALSE, panic |-> TRUE, val |-> <<>>, cap |-> 0, err |-> <<"capacity overflow">>, read |-> 0]

\* visit_seq, the while-let loop from element i on.
RECURSIVE DeserializeVecWithTraitObject_loop(_, _, _, _, _, _)
DeserializeVecWithTraitObject_loop(m, name, elems, i, vec, strict) ==
  IF i > Len(elems) THEN CollOk(vec.items, vec.cap, Len(elems))
  ELSE LET r == DeserializeTraitObject_deserialize(m, name, elems[i], strict)
       IN  IF ~r.ok THEN CollErr(r.err, i)
           ELSE DeserializeVecWithTraitObject_loop(m, name, elems, i + 1, Vec_push(vec, r.val), strict)

\* visit_seq that leaves out the elements that fail to deserialize.
RECURSIVE DeserializeVecWithTraitObject_loop_skip(_, _, _, _, _, _)
DeserializeVecWithTraitObject_loop_skip(m, name, elems, i, vec, strict) ==
  IF i > Len(elems) THEN CollOk(vec.items, vec.cap, Len(elems))
  ELSE LET r == DeserializeTraitObject_deserialize(m, name, elems[i], strict)
       IN  DeserializeVecWithTraitObject_loop_skip(
             m, name, elems, i + 1, IF r.ok THEN Vec_push(vec, r.val) ELSE vec, strict)
DeserializeVecWithTraitObject_visit_seq_skip(m, name, elems, hint, strict) ==
  IF IsSome(hint) /\ CapacityOverflow(Unwrap(hint)) THEN CollPanic
  ELSE DeserializeVecWithTraitObject_loop_skip(
         m, name, elems, 1,
         IF IsSome(hint) THEN Vec_with_capacity(Unwrap(hint)) ELSE Vec_new, strict)

\* visit_seq that puts each element in front of the ones read before it.
DeserializeVecWithTraitObject_visit_seq_reversed(m, name, elems, hint, strict) ==
  IF IsSome(hint) /\ CapacityOverflow(Unwrap(hint)) THEN CollPanic
  ELSE LET r == DeserializeVecWithTraitObject_loop(m, name, elems, 1, Vec_new, strict)
       IN  IF ~r.ok THEN r
           ELSE [r EXCEPT !.val = [i \in 1..Len(r.val) |-> r.val[Len(r.val) + 1 - i]]]

\* DeserializeVecWithTraitObject::visit_seq
DeserializeVecWithTraitObject_visit_seq(m, name, elems, hint, strict) ==
  IF IsSome(hint) /\ CapacityOverflow(Unwrap(hint)) THEN CollPanic
  ELSE DeserializeVecWithTraitObject_loop(
         m, name, elems, 1,
         IF IsSome(hint) THEN Vec_with_capacity(Unwrap(hint)) ELSE Vec_new, strict)

\* A plain String key or value on the wire, and String::deserialize.
SerializePlain(str) == [kind |-> "str", data |-> str]
DeserializePlain(w) ==
  IF w.kind = "str" THEN [ok |-> TRUE, val |-> w.data, err |-> <<>>]
  ELSE [ok |-> FALSE, val |-> "none", err |-> <<"invalid type", w.kind, "expected a string">>]

\* The two kinds of seed DeserializeMapWith is built from: PhantomData<T>
\* (T::deserialize) and DeserializeTraitObject(registry).
PlainSeed == [kind |-> "plain", reg |-> <<>>, name |-> "none"]
TraitSeed(m, name) == [kind |-> "trait", reg |-> m, name |-> name]
ApplySeed(seed, w, strict) ==
  IF seed.kind = "plain" THEN DeserializePlain(w)
  ELSE DeserializeTraitObject_deserialize(seed.reg, seed.name, w, strict)

\* DeserializeMapWith::trait_object_key / trait_object_value
DeserializeMapWith_trait_object_key(registry, name) ==
  [key_deserialize_seed |-> TraitSeed(registry, name), value_deserialize_seed |-> PlainSeed]
DeserializeMapWith_trait_object_value(registry, name) ==
  [key_deserialize_seed |-> PlainSeed, value_deserialize_seed |-> TraitSeed(registry, name)]

\* trait_object_key_and_value with the two registries exchanged.
DeserializeMapWith_trait_object_key_and_value_swapped(kreg, kname, vreg, vname) ==
  [key_deserialize_seed |-> TraitSeed(vreg, vname), value_deserialize_seed |-> TraitSeed(kreg, kname)]

\* DeserializeMapWith::trait_object_key_and_value
DeserializeMapWith_trait_object_key_and_value(kreg, kname, vreg, vname) ==
  [key_deserialize_seed |-> TraitSeed(kreg, kname), value_deserialize_seed |-> TraitSeed(vreg, vname)]

\* HashMap::insert that forgets the entries stored before.
HashMap_insert_single(h, k, v) == [x \in {k} |-> v]

\* HashMap::insert that keeps the value already stored under the key.
HashMap_insert_keep(h, k, v) ==
  IF k \in DOMAIN h THEN h ELSE [x \in DOMAIN h \cup {k} |-> IF x = k THEN v ELSE h[x]]

\* HashMap::insert
HashMap_insert(h, k, v) == [x \in DOMAIN h \cup {k} |-> IF x = k THEN v ELSE h[x]]

\* DeserializeMapWith::visit_map, the while-let loop from entry i on.
RECURSIVE DeserializeMapWith_loop(_, _, _, _, _)
DeserializeMapWith_loop(self, entries, i, map, strict) ==
  IF i > Len(entries) THEN CollOk(map, 0, Len(entries))
  ELSE LET k == ApplySeed(self.key_deserialize_seed, entries[i].key, strict)
       IN  IF ~k.ok THEN CollErr(k.err, i)
           ELSE LET v == ApplySeed(self.value_deserialize_seed, entries[i].value, strict)
                IN  IF ~v.ok THEN CollErr(v.err, i)
                    ELSE DeserializeMapWith_loop(self, entries, i + 1,
                                                 HashMap_insert(map, k.val, v.val), strict)

\* DeserializeMapWith::visit_map
DeserializeMapWith_visit_map(self, entries, hint, strict) ==
  IF IsSome(hint) /\ CapacityOverflow(Unwrap(hint)) THEN CollPanic
  ELSE DeserializeMapWith_loop(self, entries, 1, <<>>, strict)

\* Inputs of the map adapter: String on the plain side, an envelope on the
\* trait object side.
FooA == [ty |-> "Foo", val |-> "A"]
Bar0 == [ty |-> "Bar", val |-> 0]
PlainKeys == {"A", "B"}
PlainWires == {SerializePlain(k) : k \in PlainKeys}
MapElems ==
  {SerializeTraitObject_serialize("Foo", FooA), SerializeTraitObject_serialize("Bar", Bar0), <<>>}
SeqElems == MapElems
MapEntries(mode) ==
  IF mode = "key" THEN [key : MapElems, value : PlainWires]
  ELSE IF mode = "value" THEN [key : PlainWires, value : MapElems]
  ELSE [key : MapElems \ {<<>>}, value : MapElems \ {<<>>}]
Modes == {"key", "value", "both"}

\* Name and contents of a second registry, used for the keys of a map whose
\* keys and values are both trait objects.
KeyObjName == "KeyObj"
KeyRegistries ==
  {MapRegistry_register(MapRegistry_new, "Bar", "de_Bar"),
   MapRegistry_register(MapRegistry_register(MapRegistry_new, "Bar", "de_Bar"), "Foo", "de_Foo")}

\* The DeserializeMapWith a call site builds for a mode.
DeserializeMapWith_for(mode, kreg) ==
  IF mode = "key" THEN DeserializeMapWith_trait_object_key(deserialize_fns, trait_object_name)
  ELSE IF mode = "value"
  THEN DeserializeMapWith_trait_object_value(deserialize_fns, trait_object_name)
  ELSE DeserializeMapWith_trait_object_key_and_value(
         kreg, KeyObjName, deserialize_fns, trait_object_name)

\* HashMap<String, Box<dyn ExampleObj>> as a format presents it when its
\* entries are written in the order given.
SerializeMap(h, order) ==
  [i \in 1..Len(order) |->
     [key |-> SerializePlain(order[i]),
      value |-> SerializeTraitObject_serialize(IdOf(h[order[i]]), h[order[i]])]]
SrcMaps == UNION {[S -> Values] : S \in SUBSET PlainKeys}
Orders(S) ==
  {q \in SeqsUpTo(S, Cardinality(S)) :
     Len(q) = Cardinality(S) /\ \A i, j \in 1..Len(q) : i # j => q[i] # q[j]}

\* Registry::register before any collection is deserialized.
coll_register(id, f) ==
  /\ coll.op = "none"
  /\ TotalCalls < MaxCollRegs
  /\ register(id, f)

\* DeserializeVecWithTraitObject(&registry).deserialize on a serialized
\* Vec<Box<dyn ExampleObj>>; the format announces its length or nothing.
deserialize_vec_wire(vals, hint) ==
  /\ coll.op = "none"
  /\ hint \in {None, Some(Len(vals))}
  /\ \E strict \in BOOLEAN :
       coll' = [op |-> "seq", mode |-> "seq", input |-> SerializeVec(vals), hint |-> hint,
                kreg |-> <<>>, src |-> Some(vals),
                out |-> DeserializeVecWithTraitObject_visit_seq(
                          deserialize_fns, trait_object_name, SerializeVec(vals), hint, strict)]
  /\ UNCHANGED <<regVars, serVars, deVars, perm, first_fns, first_calls, first, enc, moreVars>>

\* DeserializeVecWithTraitObject(&registry).deserialize on any sequence.
deserialize_vec(elems, hint) ==
  /\ coll.op = "none"
  /\ \E strict \in BOOLEAN :
       coll' = [op |-> "seq", mode |-> "seq", input |-> elems, hint |-> hint,
                kreg |-> <<>>, src |-> None,
                out |-> DeserializeVecWithTraitObject_visit_seq(
                          deserialize_fns, trait_object_name, elems, hint, strict)]
  /\ UNCHANGED <<regVars, serVars, deVars, perm, first_fns, first_calls, first, enc, moreVars>>

\* DeserializeMapWith::trait_object_value(&registry).deserialize on a
\* serialized HashMap<String, Box<dyn ExampleObj>>.
deserialize_map_wire(h, order, hint) ==
  /\ coll.op = "none"
  /\ hint \in {None, Some(Len(order))}
  /\ \E strict \in BOOLEAN :
       coll' = [op |-> "map", mode |-> "value", input |-> SerializeMap(h, order), hint |-> hint,
                kreg |-> <<>>, src |-> Some(h),
                out |-> DeserializeMapWith_visit_map(
                          DeserializeMapWith_for("value", <<>>), SerializeMap(h, order), hint, strict)]
  /\ UNCHANGED <<regVars, serVars, deVars, perm, first_fns, first_calls, first, enc, moreVars>>

\* DeserializeMapWith built by one of its three constructors, on any map.
deserialize_map(mode, kreg, entries, hint) ==
  /\ coll.op = "none"
  /\ mode # "both" => kreg = MapRegistry_new
  /\ \E strict \in BOOLEAN :
       coll' = [op |-> "map", mode |-> mode, input |-> entries, hint |-> hint,
                kreg |-> kreg, src |-> None,
                out |-> DeserializeMapWith_visit_map(
                          DeserializeMapWith_for(mode, kreg), entries, hint, strict)]
  /\ UNCHANGED <<regVars, serVars, deVars, perm, first_fns, first_calls, first, enc, moreVars>>

\* The caller drops the collection.
coll_finish ==
  /\ coll.op # "none"
  /\ coll' = NoCall
  /\ UNCHANGED <<regVars, serVars, deVars, perm, first_fns, first_calls, first, enc, moreVars>>

NextColl ==
  \/ \E id \in Ids, f \in Fns : coll_register(id, f)
  \/ \E vals \in SeqsUpTo(Values, MaxSeqLen), hint \in Hints : deserialize_vec_wire(vals, hint)
  \/ \E elems \in SeqsUpTo(SeqElems, MaxSeqLen), hint \in Hints : deserialize_vec(elems, hint)
  \/ \E h \in SrcMaps, hint \in Hints : \E order \in Orders(DOMAIN h) :
       deserialize_map_wire(h, order, hint)
  \/ \E mode \in Modes, kreg \in KeyRegistries \cup {MapRegistry_new}, hint \in Hints :
       \E entries \in SeqsUpTo(MapEntries(mode), MaxMapLen) :
         deserialize_map(mode, kreg, entries, hint)
  \/ coll_finish

SpecColl == Init /\ [][NextColl]_vars

\* ------------------------------------------------------------ properties
SlotStatus(m, id) ==
  IF id \notin DOMAIN m THEN "absent" ELSE IF IsSome(m[id]) THEN "live" ELSE "tombstoned"
SlotRank(m, id) ==
  IF id \notin DOMAIN m THEN 0 ELSE IF IsSome(m[id]) THEN 1 ELSE 2
SlotFn(m, id) == IF id \in DOMAIN m /\ IsSome(m[id]) THEN Unwrap(m[id]) ELSE "none"
Last(q) == q[Len(q)]

\* C1: a value serialized with serialize_trait_object under an identifier
\* that was registered exactly once, with the deserialize function of the
\* value's concrete type, deserializes successfully to an equal value,
\* whatever else was registered.
C1_RoundTrip ==
  (/\ ret # NoRet
   /\ src # NoSrc
   /\ Len(calls[src.id]) = 1
   /\ calls[src.id][1] = DeserializeFnOf(src.v.ty))
    => ret = Ok(src.v)

C1_Witness ==
  /\ ret # NoRet
  /\ src # NoSrc
  /\ src.v = [ty |-> "Foo", val |-> "B"]
  /\ calls[src.id] = <<"de_Foo">>
  /\ Len(calls["Bar"]) = 2
  /\ ret = Ok(src.v)

\* C2: a register call moves the slot of its identifier absent -> live
\* holding the function passed, live -> tombstoned, or tombstoned ->
\* tombstoned, and leaves every other slot and the diagnostic name as they
\* were.
C2_RegisterTransition ==
  [][\A id \in Ids :
       calls'[id] # calls[id] =>
         /\ SlotStatus(deserialize_fns, id) = "absent" =>
               /\ SlotStatus(deserialize_fns', id) = "live"
               /\ SlotFn(deserialize_fns', id) = Last(calls'[id])
         /\ SlotStatus(deserialize_fns, id) = "live" =>
               SlotStatus(deserialize_fns', id) = "tombstoned"
         /\ SlotStatus(deserialize_fns, id) = "tombstoned" =>
               SlotStatus(deserialize_fns', id) = "tombstoned"
         /\ \A o \in Ids \ {id} :
               /\ SlotStatus(deserialize_fns', o) = SlotStatus(deserialize_fns, o)
               /\ SlotFn(deserialize_fns', o) = SlotFn(deserialize_fns, o)
         /\ trait_object_name' = trait_object_name]_vars

C2_Witness ==
  /\ Len(calls["Foo"]) = 3
  /\ SlotStatus(deserialize_fns, "Foo") = "tombstoned"
  /\ SlotStatus(deserialize_fns, "Bar") = "absent"

\* C3: over every step a slot never moves backwards in the order absent,
\* live, tombstoned: a tombstoned identifier stays tombstoned and an
\* identifier with an entry never becomes absent.
C3_SlotMonotonic ==
  [][\A id \in Ids : SlotRank(deserialize_fns', id) >= SlotRank(deserialize_fns, id)]_vars

C3_Witness ==
  /\ calls["Bar"] = <<"de_Bar", "de_Bar", "de_Foo">>
  /\ SlotStatus(deserialize_fns, "Bar") = "tombstoned"

\* C4: get_deserialize_fn(id) is NotRegistered{id} iff register was never
\* called with id, the registered function iff it was called exactly once
\* (and then it is that call's function), and MultipleRegistrations{id} iff
\* it was called two or more times.
C4_GetMatchesHistory ==
  \A id \in Ids :
    LET g == MapRegistry_get_deserialize_fn(deserialize_fns, id)
        n == Len(calls[id])
    IN  /\ (~g.ok /\ g.err = NotRegistered(id)) <=> (n = 0)
        /\ g.ok <=> (n = 1)
        /\ g.ok => g.fn = calls[id][1]
        /\ (~g.ok /\ g.err = MultipleRegistrations(id)) <=> (n >= 2)

C4_Witness ==
  /\ calls["Foo"] = <<"de_Bar">>
  /\ Len(calls["Bar"]) = 2
  /\ MapRegistry_get_deserialize_fn(deserialize_fns, "Foo").fn = "de_Bar"
  /\ pc = "AwaitValue"

\* The call has passed the key step.
PastKey == pc \in {"AwaitValue", "Done", "Failed"}
Differing(q) == \E i, j \in 1..Len(q) : q[i] # q[j]

\* C5: deserializing a one-entry map whose key is an identifier without an
\* entry in the registry fails with the message of NotRegistered for that
\* identifier; no deserialize function is invoked, no value is read and no
\* value is returned.
C5_UnknownIdentifier ==
  (/\ PastKey
   /\ Len(input) = 1
   /\ input[1].key.kind = "str"
   /\ input[1].key.data \notin DOMAIN deserialize_fns)
    => /\ pc = "Failed"
       /\ visitRes = Err(GetError_fmt(NotRegistered(input[1].key.data)))
       /\ fnCalls = 0
       /\ valuesRead = 0
       /\ ret # NoRet => ret = visitRes

C5_Witness ==
  /\ ret # NoRet
  /\ Len(input) = 1
  /\ input[1].key = SerializeId("Foo")
  /\ DOMAIN deserialize_fns = {"Bar"}
  /\ ret = Err(<<"no deserialize function was registered for id", "Foo">>)

\* C6: once an identifier has been registered more than once with differing
\* functions, every map whose key is that identifier fails to deserialize
\* with the message of MultipleRegistrations, while serialize_trait_object
\* with that identifier still writes the one-entry map of the identifier
\* and the value's own serialization.
C6_DuplicateRegistration ==
  \A id \in Ids :
    (Len(calls[id]) >= 2 /\ Differing(calls[id])) =>
      /\ (/\ PastKey
          /\ Len(input) >= 1
          /\ input[1].key = SerializeId(id))
           => /\ pc = "Failed"
              /\ visitRes = Err(GetError_fmt(MultipleRegistrations(id)))
              /\ fnCalls = 0
              /\ ret # NoRet => ret = visitRes
      /\ (src # NoSrc /\ src.id = id)
           => (IF wire # NoWire THEN wire ELSE input)
                = <<[key |-> [kind |-> "str", data |-> id], value |-> SerializeValue(src.v)]>>

C6_Witness ==
  /\ calls["Foo"] = <<"de_Foo", "de_Bar">>
  /\ src = [id |-> "Foo", v |-> [ty |-> "Foo", val |-> "A"]]
  /\ ret = Err(<<"multiple deserialize functions were registered for id", "Foo">>)

\* C7 as stated: get_deserialize_fn returns MultipleRegistrations(id)
\* exactly when id was registered more than once with differing functions.
C7_OnlyDifferingFunctions ==
  \A id \in Ids :
    LET g == MapRegistry_get_deserialize_fn(deserialize_fns, id)
    IN  (~g.ok /\ g.err = MultipleRegistrations(id)) <=> Differing(calls[id])

\* C7 amended: get_deserialize_fn returns MultipleRegistrations(id) exactly
\* when id was registered more than once, also when every registration
\* passed the same function.
C7_AnyRepeatedRegistration ==
  \A id \in Ids :
    LET g == MapRegistry_get_deserialize_fn(deserialize_fns, id)
        multiple == ~g.ok /\ g.err = MultipleRegistrations(id)
    IN  /\ multiple <=> (Len(calls[id]) >= 2)
        /\ (Len(calls[id]) >= 2 /\ ~Differing(calls[id])) => multiple

C7_Witness ==
  /\ calls["Foo"] = <<"de_Foo", "de_Foo">>
  /\ MapRegistry_get_deserialize_fn(deserialize_fns, "Foo").err = MultipleRegistrations("Foo")

\* C8: deserializing a map without entries fails with the visitor's
\* "an id-value pair" message, whatever the registry holds, and performs no
\* registry lookup.
C8_EmptyEnvelope ==
  (pc \in {"AwaitValue", "Done", "Failed"} /\ Len(input) = 0)
    => /\ pc = "Failed"
       /\ visitRes = Err(DeserializeTraitObject_expecting(trait_object_name))
       /\ lookups = 0
       /\ fnCalls = 0
       /\ ret # NoRet => ret = visitRes

C8_Witness ==
  /\ input = <<>>
  /\ DOMAIN deserialize_fns = Ids
  /\ SlotStatus(deserialize_fns, "Foo") = "live"
  /\ ret = Err(<<"an id-value pair for Box<dyn>", "ExampleObj">>)

\* C9 as stated: deserializing a map with more than one entry fails,
\* whatever the registry holds, and never returns the value of the first
\* entry.
C9_OverfullEnvelopeFails ==
  (ret # NoRet /\ Len(input) > 1) => ~ret.ok

\* What visit_map is to return for a map: the error of the first step that
\* fails among reading the key, resolving it and deserializing the value,
\* or else the value.
VisitOutcome(m, name, inp) ==
  IF Len(inp) = 0 THEN Err(DeserializeTraitObject_expecting(name))
  ELSE LET k == DeserializeId(inp[1].key)
       IN  IF ~k.ok THEN Err(k.err)
           ELSE LET g == MapRegistry_get_deserialize_fn(m, k.id)
                IN  IF ~g.ok THEN Err(GetError_fmt(g.err))
                    ELSE ApplyDeserializeFn(g.fn, inp[1].value)

\* C10: a call moves AwaitKey -> AwaitValue -> Done, and from either
\* waiting state to Failed when its step fails; Failed carries the error of
\* the first failing step, no later step runs after it, and the call then
\* returns that error and never a value.
C10_DecodeStateMachine ==
  [][/\ pc = "AwaitKey" => pc' \in {"AwaitValue", "Failed"}
     /\ pc = "AwaitValue" => pc' \in {"Done", "Failed"}
     /\ pc = "Done" => pc' \in {"Done", "idle"}
     /\ pc = "Failed" => pc' \in {"Failed", "idle"}
     /\ pc' = "Failed" =>
          /\ ~visitRes'.ok
          /\ visitRes' = VisitOutcome(deserialize_fns, trait_object_name, input')
          /\ pc = "AwaitKey" => (valuesRead' = 0 /\ fnCalls' = 0)
          /\ ret' \in {NoRet, visitRes'}
     /\ pc' = "Done" =>
          /\ visitRes'.ok
          /\ visitRes' = VisitOutcome(deserialize_fns, trait_object_name, input')
     /\ (pc = "Failed" /\ pc' = "Failed") =>
          /\ UNCHANGED <<keysRead, valuesRead, lookups, fnCalls, visitRes, deserialize_fn>>
          /\ ret' = visitRes]_vars

C10_Witness ==
  /\ pc = "Failed"
  /\ keysRead = 1
  /\ valuesRead = 1
  /\ fnCalls = 1
  /\ ret = Err(<<"invalid type", "num", "expected a string">>)

\* ------------------------------------------------ properties: collections
\* The value's own decode function is the only one registered for its id.
OwnFnOnce(v) == calls[IdOf(v)] = <<DeserializeFnOf(IdOf(v))>>
\* An envelope resolves in a registry: its id has a live slot there and the
\* function in the slot accepts the payload.
Resolves(m, env) ==
  /\ Len(env) >= 1
  /\ env[1].key.kind = "str"
  /\ MapRegistry_get_deserialize_fn(m, env[1].key.data).ok
  /\ ApplyDeserializeFn(MapRegistry_get_deserialize_fn(m, env[1].key.data).fn, env[1].value).ok
\* The value an envelope that resolves in a registry decodes to.
Resolved(m, env) ==
  ApplyDeserializeFn(MapRegistry_get_deserialize_fn(m, env[1].key.data).fn, env[1].value).val
SrcOf(c) == Unwrap(c.src)

\* C11: a sequence of trait objects whose ids are each registered exactly once
\* (with the decode function of their type) deserializes, from its serialized
\* form, to a sequence of the same length whose i-th element equals the i-th
\* source element.
C11_SequencePreserved ==
  (/\ coll.op = "seq"
   /\ IsSome(coll.src)
   /\ \A i \in 1..Len(SrcOf(coll)) : OwnFnOnce(SrcOf(coll)[i]))
  => /\ coll.out.ok
     /\ Len(coll.out.val) = Len(SrcOf(coll))
     /\ \A i \in 1..Len(SrcOf(coll)) : coll.out.val[i] = SrcOf(coll)[i]
C11_Witness ==
  /\ coll.op = "seq"
  /\ coll.src = Some(<<FooA, Bar0>>)
  /\ OwnFnOnce(FooA) /\ OwnFnOnce(Bar0)
  /\ coll.out.ok
  /\ coll.out.val = <<FooA, Bar0>>

\* What a collection call hands back to its caller: a panic, an error or the
\* collection.
SameOutcome(a, b) ==
  /\ a.ok = b.ok
  /\ a.panic = b.panic
  /\ (a.ok => a.val = b.val)
  /\ (~a.ok => a.err = b.err)
\* C12: whatever size hint the format announces (none, exact, smaller or larger
\* than the real length), deserializing a sequence or a map has the outcome it
\* has when the format announces no size.
C12_SizeHintIrrelevant ==
  coll.op \in {"seq", "map"}
  => \E strict \in BOOLEAN :
       SameOutcome(coll.out,
                   IF coll.op = "seq"
                   THEN DeserializeVecWithTraitObject_visit_seq(
                          deserialize_fns, trait_object_name, coll.input, None, strict)
                   ELSE DeserializeMapWith_visit_map(
                          DeserializeMapWith_for(coll.mode, coll.kreg), coll.input, None, strict))

\* C13: a map from plain keys to trait objects whose ids are each registered
\* exactly once deserializes with trait_object_value, from its serialized form
\* with the entries in any order, to a map with the same keys and equal values.
C13_MapRoundTrip ==
  (/\ coll.op = "map"
   /\ IsSome(coll.src)
   /\ \A k \in DOMAIN SrcOf(coll) : OwnFnOnce(SrcOf(coll)[k]))
  => /\ coll.out.ok
     /\ DOMAIN coll.out.val = DOMAIN SrcOf(coll)
     /\ \A k \in DOMAIN SrcOf(coll) : coll.out.val[k] = SrcOf(coll)[k]
C13_Witness ==
  /\ coll.op = "map"
  /\ coll.src = Some([k \in PlainKeys |-> IF k = "A" THEN Bar0 ELSE FooA])
  /\ Len(coll.input) = 2
  /\ coll.input[1].key = SerializePlain("B")
  /\ OwnFnOnce(FooA) /\ OwnFnOnce(Bar0)
  /\ coll.out.ok
  /\ coll.out.val["A"] = Bar0 /\ coll.out.val["B"] = FooA

\* C14: a map built by trait_object_key_and_value resolves every key id in the
\* key registry only and every value id in the value registry only; a map with
\* one plain side decodes that side as the plain data on the wire, whatever the
\* registry holds, and resolves the other side in the one registry.
C14_SeparateRegistries ==
  (coll.op = "map" /\ ~coll.out.panic)
  => /\ coll.mode = "both"
        => /\ coll.out.ok <=> \A i \in 1..Len(coll.input) :
                                /\ Resolves(coll.kreg, coll.input[i].key)
                                /\ Resolves(deserialize_fns, coll.input[i].value)
           /\ coll.out.ok
              => /\ DOMAIN coll.out.val
                      = {Resolved(coll.kreg, coll.input[i].key) : i \in 1..Len(coll.input)}
                 /\ \A k \in DOMAIN coll.out.val :
                      \E i \in 1..Len(coll.input) :
                        coll.out.val[k] = Resolved(deserialize_fns, coll.input[i].value)
           /\ (Len(coll.input) >= 1 /\ coll.input[1].key[1].key.data \notin DOMAIN coll.kreg)
              => /\ ~coll.out.ok
                 /\ coll.out.err = GetError_fmt(NotRegistered(coll.input[1].key[1].key.data))
           /\ (/\ Len(coll.input) >= 1
               /\ Resolves(coll.kreg, coll.input[1].key)
               /\ coll.input[1].value[1].key.data \notin DOMAIN deserialize_fns)
              => /\ ~coll.out.ok
                 /\ coll.out.err = GetError_fmt(NotRegistered(coll.input[1].value[1].key.data))
     /\ coll.mode = "value"
        => /\ coll.out.ok <=> \A i \in 1..Len(coll.input) :
                                Resolves(deserialize_fns, coll.input[i].value)
           /\ coll.out.ok
              => DOMAIN coll.out.val = {coll.input[i].key.data : i \in 1..Len(coll.input)}
     /\ coll.mode = "key"
        => /\ coll.out.ok <=> \A i \in 1..Len(coll.input) :
                                Resolves(deserialize_fns, coll.input[i].key)
           /\ coll.out.ok
              => \A k \in DOMAIN coll.out.val :
                   \E i \in 1..Len(coll.input) : coll.out.val[k] = coll.input[i].value.data
C14_Witness ==
  /\ coll.op = "map"
  /\ coll.mode = "both"
  /\ coll.kreg = MapRegistry_register(MapRegistry_new, "Bar", "de_Bar")
  /\ ~Resolves(deserialize_fns, SerializeTraitObject_serialize("Bar", Bar0))
  /\ ~Resolves(coll.kreg, SerializeTraitObject_serialize("Foo", FooA))
  /\ Len(coll.input) = 1
  /\ coll.out.ok
  /\ coll.out.val[Bar0] = FooA

\* C15: the result holds one value per distinct decoded key; when entries
\* decode to the same key, the value of the last of them is the one stored.
C15_LastEntryWins ==
  (coll.op = "map" /\ coll.mode = "value" /\ coll.out.ok)
  => \A i \in 1..Len(coll.input) :
       (\A j \in (i + 1)..Len(coll.input) : coll.input[j].key # coll.input[i].key)
       => coll.out.val[coll.input[i].key.data] = Resolved(deserialize_fns, coll.input[i].value)
C15_Witness ==
  /\ coll.op = "map"
  /\ coll.mode = "value"
  /\ Len(coll.input) = 2
  /\ coll.input[1].key = coll.input[2].key
  /\ coll.input[1].value = SerializeTraitObject_serialize("Foo", FooA)
  /\ coll.input[2].value = SerializeTraitObject_serialize("Bar", Bar0)
  /\ coll.out.ok
  /\ coll.out.val = [k \in {coll.input[1].key.data} |-> Bar0]

\* ---------------------------------------------------- permissive decoding
MaxPermRegs == 2

\* Result<Option<Box<O>>, E>
POk(opt) == [ok |-> TRUE, val |-> opt, err |-> <<>>]
PErr(e) == [ok |-> FALSE, val |-> None, err |-> e]

\* PermissiveIdToDeserializeFn::visit_str that turns every GetError into None.
PermissiveIdToDeserializeFn_visit_str_lenient(m, key) ==
  LET g == MapRegistry_get_deserialize_fn(m, key)
  IN  IF g.ok THEN [ok |-> TRUE, fn |-> Some(g.fn), err |-> <<>>]
      ELSE [ok |-> TRUE, fn |-> None, err |-> <<>>]

\* PermissiveIdToDeserializeFn::visit_str
PermissiveIdToDeserializeFn_visit_str(m, key) ==
  LET g == MapRegistry_get_deserialize_fn(m, key)
  IN  IF g.ok THEN [ok |-> TRUE, fn |-> Some(g.fn), err |-> <<>>]
      ELSE IF g.err = NotRegistered(key) THEN [ok |-> TRUE, fn |-> None, err |-> <<>>]
      ELSE [ok |-> FALSE, fn |-> None, err |-> GetError_fmt(g.err)]

\* PermissiveIdToDeserializeFn::expecting
PermissiveIdToDeserializeFn_expecting(name) ==
  <<"an id for an optional deserialize function of Box<dyn>", name>>

\* PermissiveIdToDeserializeFn::deserialize: deserializer.deserialize_str(self)
PermissiveIdToDeserializeFn_deserialize(m, name, key) ==
  IF key.kind = "str" THEN PermissiveIdToDeserializeFn_visit_str(m, key.data)
  ELSE [ok |-> FALSE, fn |-> None,
        err |-> <<"invalid type", key.kind, PermissiveIdToDeserializeFn_expecting(name)>>]

\* PermissiveDeserializeTraitObject::expecting
PermissiveDeserializeTraitObject_expecting(name) ==
  <<"an id-value pair for Option<Box<dyn>>", name>>

\* PermissiveDeserializeTraitObject::visit_map; keys and values count what was
\* taken from the map access.
PermissiveDeserializeTraitObject_visit_map(m, name, inp) ==
  IF Len(inp) = 0
  THEN [res |-> PErr(PermissiveDeserializeTraitObject_expecting(name)), keys |-> 0, values |-> 0]
  ELSE LET k == PermissiveIdToDeserializeFn_deserialize(m, name, inp[1].key)
       IN  IF ~k.ok THEN [res |-> PErr(k.err), keys |-> 1, values |-> 0]
           ELSE IF IsSome(k.fn)
           THEN LET r == DeserializeWithFn_deserialize(Unwrap(k.fn), inp[1].value)
                IN  [res |-> IF r.ok THEN POk(Some(r.val)) ELSE PErr(r.err),
                     keys |-> 1, values |-> 1]
           ELSE [res |-> POk(None), keys |-> 1, values |-> 0]

\* What deserialize_map returns once the visitor has returned: its result, or
\* the format's own error when the format checks that the map was consumed
\* and a key's value or a further entry was left unread.
Deserializer_end_map(res, inp, keys, values, strict) ==
  IF ~res.ok THEN res
  ELSE IF strict /\ (keys < Len(inp) \/ values < keys) THEN PErr(<<"trailing characters">>)
  ELSE res

\* PermissiveDeserializeTraitObject::deserialize
PermissiveDeserializeTraitObject_deserialize(m, name, inp, strict) ==
  LET v == PermissiveDeserializeTraitObject_visit_map(m, name, inp)
  IN  Deserializer_end_map(v.res, inp, v.keys, v.values, strict)

\* A sequence visitor over PermissiveDeserializeTraitObject that skips the
\* elements decoded to None, as the module documentation describes it.
RECURSIVE PermissiveDeserializeVec_loop(_, _, _, _, _, _)
PermissiveDeserializeVec_loop(m, name, elems, i, vec, strict) ==
  IF i > Len(elems) THEN CollOk(vec.items, vec.cap, Len(elems))
  ELSE LET r == PermissiveDeserializeTraitObject_deserialize(m, name, elems[i], strict)
       IN  IF ~r.ok THEN CollErr(r.err, i)
           ELSE PermissiveDeserializeVec_loop(
                  m, name, elems, i + 1,
                  IF IsSome(r.val) THEN Vec_push(vec, Unwrap(r.val)) ELSE vec, strict)
PermissiveDeserializeVec_visit_seq(m, name, elems, strict) ==
  PermissiveDeserializeVec_loop(m, name, elems, 1, Vec_new, strict)

\* Registry::register before any permissive call.
perm_register(id, f) ==
  /\ perm.op = "none"
  /\ TotalCalls < MaxPermRegs
  /\ register(id, f)

\* PermissiveDeserializeTraitObject(&registry).deserialize(deserializer)
permissive_deserialize(inp, strict) ==
  /\ perm.op = "none"
  /\ perm' = [op |-> "one", input |-> inp, strict |-> strict,
              visit |-> PermissiveDeserializeTraitObject_visit_map(
                          deserialize_fns, trait_object_name, inp),
              out |-> PermissiveDeserializeTraitObject_deserialize(
                        deserialize_fns, trait_object_name, inp, strict)]
  /\ UNCHANGED <<regVars, serVars, deVars, coll, first_fns, first_calls, first, enc, moreVars>>

\* Permissive decoding of a sequence of id-value pairs.
permissive_deserialize_seq(elems, strict) ==
  /\ perm.op = "none"
  /\ perm' = [op |-> "seq", input |-> elems, strict |-> strict,
              visit |-> [res |-> POk(None), keys |-> 0, values |-> 0],
              out |-> PermissiveDeserializeVec_visit_seq(
                        deserialize_fns, trait_object_name, elems, strict)]
  /\ UNCHANGED <<regVars, serVars, deVars, coll, first_fns, first_calls, first, enc, moreVars>>

\* The caller drops the result.
perm_finish ==
  /\ perm.op # "none"
  /\ perm' = NoCall
  /\ UNCHANGED <<regVars, serVars, deVars, coll, first_fns, first_calls, first, enc, moreVars>>

NextPerm ==
  \/ \E id \in Ids, f \in Fns : perm_register(id, f)
  \/ \E inp \in Inputs, strict \in BOOLEAN : permissive_deserialize(inp, strict)
  \/ \E elems \in SeqsUpTo(SeqElems, MaxSeqLen), strict \in BOOLEAN :
       permissive_deserialize_seq(elems, strict)
  \/ perm_finish

SpecPerm == Init /\ [][NextPerm]_vars

\* ------------------------------------------------- properties: permissive
\* The registry's answer for the key of a map's first entry.
FirstKeyGet(m, inp) == MapRegistry_get_deserialize_fn(m, inp[1].key.data)

\* C16: permissive decoding of a single id-value pair returns success with None
\* when the id resolves with NotRegistered, and Some(value decoded by the
\* registered function) when the id resolves to a function.
C16_PermissiveSingleValue ==
  (perm.op = "one" /\ Len(perm.input) = 1 /\ perm.input[1].key.kind = "str")
  => /\ FirstKeyGet(deserialize_fns, perm.input).err = NotRegistered(perm.input[1].key.data)
        => perm.out = POk(None)
     /\ (/\ FirstKeyGet(deserialize_fns, perm.input).ok
         /\ ApplyDeserializeFn(FirstKeyGet(deserialize_fns, perm.input).fn,
                               perm.input[1].value).ok)
        => perm.out = POk(Some(Resolved(deserialize_fns, perm.input)))

\* C17: in permissive decoding an id that resolves with MultipleRegistrations,
\* an empty map, a key that is not a string and a payload its function rejects
\* each make the decode fail with that error; none of them becomes None.
C17_OnlyNotRegisteredPermitted ==
  perm.op = "one"
  => /\ Len(perm.input) = 0
        => perm.out = PErr(PermissiveDeserializeTraitObject_expecting(trait_object_name))
     /\ (Len(perm.input) >= 1 /\ perm.input[1].key.kind # "str")
        => ~perm.out.ok /\ perm.out.err[1] = "invalid type"
     /\ (Len(perm.input) >= 1 /\ perm.input[1].key.kind = "str")
        => /\ FirstKeyGet(deserialize_fns, perm.input).err
                = MultipleRegistrations(perm.input[1].key.data)
              => perm.out = PErr(GetError_fmt(MultipleRegistrations(perm.input[1].key.data)))
           /\ (/\ FirstKeyGet(deserialize_fns, perm.input).ok
               /\ ~ApplyDeserializeFn(FirstKeyGet(deserialize_fns, perm.input).fn,
                                      perm.input[1].value).ok)
              => perm.out = PErr(ApplyDeserializeFn(FirstKeyGet(deserialize_fns, perm.input).fn,
                                                    perm.input[1].value).err)
C17_Witness ==
  /\ perm.op = "one"
  /\ Len(perm.input) = 1
  /\ perm.input[1].key = SerializeId("Foo")
  /\ calls["Foo"] = <<"de_Foo", "de_Foo">>
  /\ perm.out = PErr(GetError_fmt(MultipleRegistrations("Foo")))

\* The elements of a sequence that a permissive decode keeps: those whose id
\* is registered, decoded, in input order.
RECURSIVE KeptElems(_, _)
KeptElems(m, elems) ==
  IF Len(elems) = 0 THEN <<>>
  ELSE IF FirstKeyGet(m, elems[1]).err = NotRegistered(elems[1][1].key.data)
  THEN KeptElems(m, Tail(elems))
  ELSE <<Resolved(m, elems[1])>> \o KeptElems(m, Tail(elems))
\* C18: permissive decoding of a sequence of id-value pairs, each of whose ids
\* is either not registered or resolves to a function that accepts its payload,
\* succeeds with the decoded elements of the registered ids in input order,
\* the elements of unregistered ids omitted.
C18_PermissiveCollection ==
  (/\ perm.op = "seq"
   /\ \A i \in 1..Len(perm.input) :
        \/ Resolves(deserialize_fns, perm.input[i])
        \/ /\ Len(perm.input[i]) = 1
           /\ FirstKeyGet(deserialize_fns, perm.input[i]).err
                = NotRegistered(perm.input[i][1].key.data))
  => /\ perm.out.ok
     /\ perm.out.val = KeptElems(deserialize_fns, perm.input)

\* ------------------------------------------------------ FirstMapRegistry
MaxFirstRegs == 3

\* register written as a plain insert: the last registration replaces the slot.
FirstMapRegistry_register_overwrite(m, id, f) ==
  [k \in DOMAIN m \cup {id} |-> IF k = id THEN f ELSE m[k]]

\* self.deserialize_fns.entry(id).or_insert(deserialize_fn)
FirstMapRegistry_register(m, id, f) ==
  IF id \in DOMAIN m THEN m
  ELSE [k \in DOMAIN m \cup {id} |-> IF k = id THEN f ELSE m[k]]

\* self.deserialize_fns.get(&id).ok_or_else(|| GetError::NotRegistered { id })
FirstMapRegistry_get_deserialize_fn(m, id) ==
  IF id \in DOMAIN m THEN [ok |-> TRUE, fn |-> m[id], err |-> <<>>]
  ELSE [ok |-> FALSE, fn |-> "none", err |-> NotRegistered(id)]

\* IdToDeserializeFn::deserialize with R = FirstMapRegistry
FirstIdToDeserializeFn_deserialize(m, key) ==
  LET idr == DeserializeId(key)
  IN  IF ~idr.ok THEN [ok |-> FALSE, fn |-> "none", err |-> idr.err]
      ELSE LET g == FirstMapRegistry_get_deserialize_fn(m, idr.id)
           IN  IF g.ok THEN [ok |-> TRUE, fn |-> g.fn, err |-> <<>>]
               ELSE [ok |-> FALSE, fn |-> "none", err |-> GetError_fmt(g.err)]

\* DeserializeTraitObject::visit_map with R = FirstMapRegistry, and what
\* deserialize_trait_object returns for it.
FirstDeserializeTraitObject_visit_map(m, name, inp) ==
  IF Len(inp) = 0 THEN [res |-> Err(DeserializeTraitObject_expecting(name)), keys |-> 0]
  ELSE LET k == FirstIdToDeserializeFn_deserialize(m, inp[1].key)
       IN  IF ~k.ok THEN [res |-> Err(k.err), keys |-> 1]
           ELSE [res |-> DeserializeWithFn_deserialize(k.fn, inp[1].value), keys |-> 1]
FirstMapRegistry_deserialize_trait_object(m, name, inp, strict) ==
  LET v == FirstDeserializeTraitObject_visit_map(m, name, inp)
  IN  Deserializer_end(v.res, inp, v.keys, strict)

\* Maps with at most one entry.
FirstInputs == {inp \in Inputs : Len(inp) <= 1}
FirstTotalCalls == Len(first_calls["Foo"]) + Len(first_calls["Bar"])

\* FirstMapRegistry::register
first_register(id, f) ==
  /\ first.op = "none"
  /\ FirstTotalCalls < MaxFirstRegs
  /\ first_fns' = FirstMapRegistry_register(first_fns, id, f)
  /\ first_calls' = [first_calls EXCEPT ![id] = Append(@, f)]
  /\ UNCHANGED <<regVars, serVars, deVars, coll, perm, first, enc, moreVars>>

\* FirstMapRegistry::get_deserialize_fn
first_get_deserialize_fn(id) ==
  /\ first.op = "none"
  /\ first' = [op |-> "get", id |-> id, input |-> <<>>,
               out |-> FirstMapRegistry_get_deserialize_fn(first_fns, id)]
  /\ UNCHANGED <<regVars, serVars, deVars, coll, perm, first_fns, first_calls, enc, moreVars>>

\* EXAMPLE_OBJ_REGISTRY.deserialize_trait_object(deserializer)
first_deserialize_trait_object(inp, strict) ==
  /\ first.op = "none"
  /\ first' = [op |-> "de", id |-> "none", input |-> inp,
               out |-> FirstMapRegistry_deserialize_trait_object(
                         first_fns, trait_object_name, inp, strict)]
  /\ UNCHANGED <<regVars, serVars, deVars, coll, perm, first_fns, first_calls, enc, moreVars>>

\* The caller drops the result.
first_finish ==
  /\ first.op # "none"
  /\ first' = NoCall
  /\ UNCHANGED <<regVars, serVars, deVars, coll, perm, first_fns, first_calls, enc, moreVars>>

NextFirst ==
  \/ \E id \in Ids, f \in Fns : first_register(id, f)
  \/ \E id \in Ids : first_get_deserialize_fn(id)
  \/ \E inp \in FirstInputs, strict \in BOOLEAN : first_deserialize_trait_object(inp, strict)
  \/ first_finish

SpecFirst == Init /\ [][NextFirst]_vars

\* C19: with FirstMapRegistry, get_deserialize_fn(id) returns the function of
\* the first register call for id whatever was registered for it later, never
\* MultipleRegistrations, and NotRegistered exactly when id was never
\* registered; a map tagged with an id registered more than once with the
\* function of its type decodes to its value.
C19_FirstRegistrationWins ==
  /\ \A id \in Ids :
       LET g == FirstMapRegistry_get_deserialize_fn(first_fns, id)
       IN  /\ first_calls[id] = <<>> <=> (~g.ok /\ g.err = NotRegistered(id))
           /\ first_calls[id] # <<>> => (g.ok /\ g.fn = first_calls[id][1])
           /\ g.ok \/ g.err[1] # "MultipleRegistrations"
  /\ first.op = "get"
     => /\ first.out.ok <=> first_calls[first.id] # <<>>
        /\ first.out.ok => first.out.fn = first_calls[first.id][1]
        /\ ~first.out.ok => first.out.err = NotRegistered(first.id)
  /\ (/\ first.op = "de"
      /\ first.input = SerializeTraitObject_serialize("Foo", FooA)
      /\ Len(first_calls["Foo"]) >= 2
      /\ \A i \in 1..Len(first_calls["Foo"]) : first_calls["Foo"][i] = "de_Foo")
     => first.out = Ok(FooA)
C19_Witness ==
  /\ first.op = "de"
  /\ first.input = SerializeTraitObject_serialize("Foo", FooA)
  /\ first_calls["Foo"] = <<"de_Foo", "de_Foo">>
  /\ first.out = Ok(FooA)

\* ------------------------------------------------------ serializer calls
MaxSerRegs == 2

\* The calls SerializeTraitObject::serialize makes on the serializer, as
\* records of the method and its arguments.
NoArg == [kind |-> "none", data |-> "none"]
Call_serialize_map(len) == [call |-> "serialize_map", len |-> len, key |-> NoArg, value |-> NoArg]
Call_serialize_entry(k, v) == [call |-> "serialize_entry", len |-> None, key |-> k, value |-> v]
Call_end == [call |-> "end", len |-> None, key |-> NoArg, value |-> NoArg]
SerOk(calls_made) == [ok |-> TRUE, calls |-> calls_made, err |-> <<>>]
SerErr(calls_made) ==
  [ok |-> FALSE, calls |-> calls_made,
   err |-> <<"serializer error", calls_made[Len(calls_made)].call>>]

\* serialize that closes the map before returning the error of the entry.
SerializeTraitObject_serialize_calls_close(id, v, failAt) ==
  IF failAt = 1 THEN SerErr(<<Call_serialize_map(Some(1))>>)
  ELSE IF failAt = 2
  THEN [SerErr(<<Call_serialize_map(Some(1)),
                 Call_serialize_entry(SerializeId(id), SerializeValue(v))>>)
          EXCEPT !.calls = Append(@, Call_end)]
  ELSE IF failAt = 3
  THEN SerErr(<<Call_serialize_map(Some(1)),
                Call_serialize_entry(SerializeId(id), SerializeValue(v)), Call_end>>)
  ELSE SerOk(<<Call_serialize_map(Some(1)),
               Call_serialize_entry(SerializeId(id), SerializeValue(v)), Call_end>>)

\* SerializeTraitObject::serialize against a serializer whose failAt-th call
\* fails (0: none does):
\*   let mut map = serializer.serialize_map(Some(1))?;
\*   map.serialize_entry(&self.id, &Wrap(self.trait_object))?;
\*   map.end()
SerializeTraitObject_serialize_calls(id, v, failAt) ==
  IF failAt = 1 THEN SerErr(<<Call_serialize_map(Some(1))>>)
  ELSE IF failAt = 2
  THEN SerErr(<<Call_serialize_map(Some(1)),
                Call_serialize_entry(SerializeId(id), SerializeValue(v))>>)
  ELSE IF failAt = 3
  THEN SerErr(<<Call_serialize_map(Some(1)),
                Call_serialize_entry(SerializeId(id), SerializeValue(v)), Call_end>>)
  ELSE SerOk(<<Call_serialize_map(Some(1)),
               Call_serialize_entry(SerializeId(id), SerializeValue(v)), Call_end>>)

\* The entries a serializer has been given between serialize_map and end.
WrittenEntries(calls_made) ==
  SelectSeq(calls_made, LAMBDA c : c.call = "serialize_entry")

\* Registry::register before any value is serialized.
enc_register(id, f) ==
  /\ enc.op = "none"
  /\ TotalCalls < MaxSerRegs
  /\ register(id, f)

\* serialize_trait_object(serializer, id, trait_object)
enc_serialize_trait_object(id, v, failAt) ==
  /\ enc.op = "none"
  /\ enc' = [op |-> "ser", id |-> id, value |-> v, failAt |-> failAt,
             out |-> SerializeTraitObject_serialize_calls(id, v, failAt)]
  /\ UNCHANGED <<regVars, serVars, deVars, coll, perm, first_fns, first_calls, first, moreVars>>

\* The caller takes the result.
enc_finish ==
  /\ enc.op # "none"
  /\ enc' = NoCall
  /\ UNCHANGED <<regVars, serVars, deVars, coll, perm, first_fns, first_calls, first, moreVars>>

NextSer ==
  \/ \E id \in Ids, f \in Fns : enc_register(id, f)
  \/ \E id \in Ids, v \in Values, failAt \in 0..3 : enc_serialize_trait_object(id, v, failAt)
  \/ enc_finish

SpecSer == Init /\ [][NextSer]_vars

\* C20: serialize_trait_object calls serialize_map with length 1, then
\* serialize_entry once with the identifier as key and the value's own
\* serialization as value, then end, in that order; a successful call has
\* written exactly one entry, and when one of the calls fails its error is
\* returned and no later call is made.
C20_EncodeShape ==
  enc.op = "ser"
  => LET made == enc.out.calls
         full == <<Call_serialize_map(Some(1)),
                   Call_serialize_entry(SerializeId(enc.id), SerializeValue(enc.value)),
                   Call_end>>
     IN  /\ Len(made) >= 1 /\ Len(made) <= 3
         /\ made = SubSeq(full, 1, Len(made))
         /\ enc.out.ok <=> enc.failAt = 0
         /\ enc.out.ok
            => /\ made = full
               /\ Len(WrittenEntries(made)) = 1
               /\ <<[key |-> made[2].key, value |-> made[2].value]>>
                    = SerializeTraitObject_serialize(enc.id, enc.value)
         /\ ~enc.out.ok
            => /\ Len(made) = enc.failAt
               /\ enc.out.err = <<"serializer error", full[enc.failAt].call>>
C20_Witness ==
  /\ enc.op = "ser"
  /\ enc.failAt = 2
  /\ ~enc.out.ok
  /\ Len(enc.out.calls) = 2
  /\ enc.out.calls[2].call = "serialize_entry"

\* ------------------------------------------------------- shared readers
MaxConcRegs == 2

\* get_deserialize_fn that takes the function out of its slot.
MapRegistry_get_deserialize_fn_self_take(m, id) ==
  IF id \in DOMAIN m THEN [m EXCEPT ![id] = None] ELSE m

\* get_deserialize_fn(&self, id): the registry after the call.
MapRegistry_get_deserialize_fn_self(m, id) == m

\* Maps the readers decode: empty, one id-value pair, two id-value pairs.
ConcInputs ==
  {<<>>,
   SerializeTraitObject_serialize("Foo", FooA),
   SerializeTraitObject_serialize("Foo", FooA) \o SerializeTraitObject_serialize("Bar", Bar0)}

\* Registry::register while the registry is borrowed mutably.
conc_register(id, f) ==
  /\ phase = "build"
  /\ TotalCalls < MaxConcRegs
  /\ register(id, f)

\* The registry is built: from here on it is only borrowed shared (the
\* LazyLock initializer has returned, or &registry is handed to the threads).
share ==
  /\ phase = "build"
  /\ phase' = "shared"
  /\ UNCHANGED <<regVars, serVars, deVars, coll, perm, first_fns, first_calls, first, enc,
                 readers, r2_fns, two, ordering, ident>>

\* A thread calls registry.get_deserialize_fn(id).
reader_get_deserialize_fn(r, id) ==
  /\ phase = "shared"
  /\ readers[r].pc = "idle"
  /\ readers' = [readers EXCEPT ![r] =
                   [@ EXCEPT !.pc = "Returned", !.op = "get", !.id = id,
                             !.got = MapRegistry_get_deserialize_fn(deserialize_fns, id)]]
  /\ deserialize_fns' = MapRegistry_get_deserialize_fn_self(deserialize_fns, id)
  /\ UNCHANGED <<trait_object_name, calls, serVars, deVars, coll, perm, first_fns, first_calls,
                 first, enc, phase, r2_fns, two, ordering, ident>>

\* A thread calls registry.deserialize_trait_object(deserializer).
reader_deserialize_trait_object(r, inp, strict) ==
  /\ phase = "shared"
  /\ readers[r].pc = "idle"
  /\ readers' = [readers EXCEPT ![r] =
                   [@ EXCEPT !.pc = "AwaitKey", !.op = "de", !.input = inp, !.strict = strict]]
  /\ UNCHANGED <<regVars, serVars, deVars, coll, perm, first_fns, first_calls, first, enc,
                 phase, r2_fns, two, ordering, ident>>

\* The thread's visit_map takes the key and resolves it in the registry.
reader_visit_map_key(r) ==
  /\ readers[r].pc = "AwaitKey"
  /\ LET k == DeserializeTraitObject_next_key(
                deserialize_fns, trait_object_name, readers[r].input, readers[r].keys)
     IN  /\ readers' = [readers EXCEPT ![r] =
                          [@ EXCEPT !.pc = k.pc, !.res = k.res, !.fn = k.fn, !.keys = k.read]]
         /\ deserialize_fns' =
              IF k.lookups = 0 THEN deserialize_fns
              ELSE MapRegistry_get_deserialize_fn_self(
                     deserialize_fns, readers[r].input[readers[r].keys + 1].key.data)
  /\ UNCHANGED <<trait_object_name, calls, serVars, deVars, coll, perm, first_fns, first_calls,
                 first, enc, phase, r2_fns, two, ordering, ident>>

\* The thread's visit_map reads the value with the function it resolved.
reader_visit_map_value(r) ==
  /\ readers[r].pc = "AwaitValue"
  /\ LET v == DeserializeWithFn_deserialize(
                Unwrap(readers[r].fn), readers[r].input[readers[r].values + 1].value)
     IN  readers' = [readers EXCEPT ![r] =
                       [@ EXCEPT !.pc = IF v.ok THEN "Done" ELSE "Failed", !.res = v,
                                 !.values = @ + 1]]
  /\ UNCHANGED <<regVars, serVars, deVars, coll, perm, first_fns, first_calls, first, enc,
                 phase, r2_fns, two, ordering, ident>>

\* deserialize_map returns to the thread.
reader_return(r) ==
  /\ readers[r].pc \in {"Done", "Failed"}
  /\ readers' = [readers EXCEPT ![r] =
                   [@ EXCEPT !.pc = "Returned",
                             !.ret = Deserializer_end(readers[r].res, readers[r].input,
                                                      readers[r].keys, readers[r].strict)]]
  /\ UNCHANGED <<regVars, serVars, deVars, coll, perm, first_fns, first_calls, first, enc,
                 phase, r2_fns, two, ordering, ident>>

\* The thread drops the result.
reader_finish(r) ==
  /\ readers[r].pc = "Returned"
  /\ readers' = [readers EXCEPT ![r] = IdleReader]
  /\ UNCHANGED <<regVars, serVars, deVars, coll, perm, first_fns, first_calls, first, enc,
                 phase, r2_fns, two, ordering, ident>>

NextConc ==
  \/ \E id \in Ids, f \in Fns : conc_register(id, f)
  \/ share
  \/ \E r \in Readers, id \in Ids : reader_get_deserialize_fn(r, id)
  \/ \E r \in Readers, inp \in ConcInputs, strict \in BOOLEAN :
       reader_deserialize_trait_object(r, inp, strict)
  \/ \E r \in Readers : reader_visit_map_key(r)
  \/ \E r \in Readers : reader_visit_map_value(r)
  \/ \E r \in Readers : reader_return(r)
  \/ \E r \in Readers : reader_finish(r)

SpecConc == Init /\ [][NextConc]_vars

\* What a finished call of a reader returned, and what the same call returns
\* when it runs alone on registry m.
ReaderResult(rd) == IF rd.op = "get" THEN rd.got ELSE rd.ret
AloneResult(m, name, rd) ==
  IF rd.op = "get" THEN MapRegistry_get_deserialize_fn(m, rd.id)
  ELSE DeserializeTraitObject_deserialize(m, name, rd.input, rd.strict)

\* C21: once the registry is shared, no step of any reader changes it, and
\* every call a reader has finished, whatever the other readers did meanwhile,
\* returned what that call returns when it runs alone on the registry.
C21_SharedReadOnly ==
  [][phase = "shared"
     => /\ deserialize_fns' = deserialize_fns
        /\ \A r \in Readers :
             readers'[r].pc = "Returned"
             => ReaderResult(readers'[r])
                  = AloneResult(deserialize_fns', trait_object_name, readers'[r])]_vars
C21_Witness ==
  /\ phase = "shared"
  /\ readers[1].pc = "Returned" /\ readers[1].op = "de"
  /\ readers[1].ret = Ok(FooA)
  /\ readers[2].pc = "AwaitValue"
  /\ readers[2].input = readers[1].input

\* ------------------------------------------------------- two registries
MaxTwoRegs == 2
Example2ObjName == "Example2Obj"

\* The adapters reading a registry that is reachable globally, instead of the
\* one named where the adapter is built.
PassedRegistry_global(which, r1, r2) == [fns |-> r2, name |-> Example2ObjName]

\* DeserializeTraitObject(&registry), DeserializeVecWithTraitObject(&registry),
\* DeserializeMapWith::trait_object_value(&registry): the registry the adapter
\* holds is the one named at the call site.
PassedRegistry(which, r1, r2) ==
  IF which = 1 THEN [fns |-> r1, name |-> "ExampleObj"]
  ELSE [fns |-> r2, name |-> Example2ObjName]

\* The three adapters on an input, with registry `which` of r1 and r2 passed.
TwoDecode(kind, which, r1, r2, inp, strict) ==
  LET reg == PassedRegistry(which, r1, r2)
  IN  IF kind = "one" THEN DeserializeTraitObject_deserialize(reg.fns, reg.name, inp, strict)
      ELSE IF kind = "vec"
      THEN DeserializeVecWithTraitObject_visit_seq(reg.fns, reg.name, inp, None, strict)
      ELSE DeserializeMapWith_visit_map(
             DeserializeMapWith_trait_object_value(reg.fns, reg.name), inp, None, strict)
TwoKinds == {"one", "vec", "map"}
TwoInputs(kind) ==
  IF kind = "one" THEN FirstInputs
  ELSE IF kind = "vec" THEN SeqsUpTo(SeqElems, MaxSeqLen)
  ELSE SeqsUpTo([key : {SerializePlain("A")}, value : MapElems], MaxMapLen)

\* register on the first registry.
two_register1(id, f) ==
  /\ two.op = "none"
  /\ TotalCalls < MaxTwoRegs
  /\ register(id, f)

\* register on the second registry.
two_register2(id) ==
  /\ two.op = "none"
  /\ r2_fns' = MapRegistry_register(r2_fns, id, DeserializeFnOf(id))
  /\ r2_fns' # r2_fns
  /\ UNCHANGED <<regVars, serVars, deVars, coll, perm, first_fns, first_calls, first, enc,
                 phase, readers, two, ordering, ident>>

\* One of the adapters is built on one of the registries and deserializes.
two_deserialize(kind, which, inp, strict) ==
  /\ two.op = "none"
  /\ two' = [op |-> "de", kind |-> kind, which |-> which, input |-> inp, strict |-> strict,
             out |-> TwoDecode(kind, which, deserialize_fns, r2_fns, inp, strict)]
  /\ UNCHANGED <<regVars, serVars, deVars, coll, perm, first_fns, first_calls, first, enc,
                 phase, readers, r2_fns, ordering, ident>>

\* The caller drops the result.
two_finish ==
  /\ two.op # "none"
  /\ two' = NoCall
  /\ UNCHANGED <<regVars, serVars, deVars, coll, perm, first_fns, first_calls, first, enc,
                 phase, readers, r2_fns, ordering, ident>>

NextTwo ==
  \/ \E id \in Ids, f \in Fns : two_register1(id, f)
  \/ \E id \in Ids : two_register2(id)
  \/ \E kind \in TwoKinds, which \in {1, 2}, strict \in BOOLEAN :
       \E inp \in TwoInputs(kind) : two_deserialize(kind, which, inp, strict)
  \/ two_finish

SpecTwo == Init /\ [][NextTwo]_vars

\* C22: a register call on the second registry leaves the first registry as
\* it was, and what an adapter built on one registry returns for an input is
\* what it returns when the other registry is empty: the result depends on
\* the input and the registry passed, on no other registry.
C22_NoGlobalState ==
  [][/\ r2_fns' # r2_fns => deserialize_fns' = deserialize_fns
     /\ two'.op = "de"
        => two'.out = IF two'.which = 1
                      THEN TwoDecode(two'.kind, 1, deserialize_fns', MapRegistry_new,
                                     two'.input, two'.strict)
                      ELSE TwoDecode(two'.kind, 2, MapRegistry_new, r2_fns',
                                     two'.input, two'.strict)]_vars
C22_Witness ==
  /\ two.op = "de"
  /\ two.which = 1
  /\ two.kind = "vec"
  /\ two.input = <<SerializeTraitObject_serialize("Foo", FooA)>>
  /\ two.out.ok
  /\ "Foo" \in DOMAIN r2_fns /\ r2_fns["Foo"] = None

\* --------------------------------------------- properties: error content
\* An error message names x.
Mentions(e, x) == \E i \in 1..Len(e) : e[i] = x
\* The running call failed at the registry lookup of its key.
LookupFailed ==
  /\ pc = "Failed"
  /\ keysRead = 1
  /\ valuesRead = 0
  /\ input[1].key.kind = "str"
\* The running call failed in the deserialize function of its key.
PayloadFailed ==
  /\ pc = "Failed"
  /\ valuesRead = 1

\* C24 as stated: a decode that fails at the registry lookup carries an error
\* that names the trait object of the registry and the identifier.
C24_NamesInterfaceAndId ==
  LookupFailed
  => /\ Mentions(visitRes.err, trait_object_name)
     /\ Mentions(visitRes.err, input[1].key.data)

\* C24: a decode that fails at the registry lookup carries the Display text
\* of the GetError, which names the kind of failure and the identifier, and
\* not the trait object; that error is what the call returns.
C24_NamesIdOnly ==
  LookupFailed
  => /\ visitRes.err[1] = IF input[1].key.data \in DOMAIN deserialize_fns
                          THEN "multiple deserialize functions were registered for id"
                          ELSE "no deserialize function was registered for id"
     /\ Mentions(visitRes.err, input[1].key.data)
     /\ ~Mentions(visitRes.err, trait_object_name)
     /\ ret # NoRet => ret = visitRes
C24_Witness ==
  /\ LookupFailed
  /\ ret = Err(<<"multiple deserialize functions were registered for id", "Foo">>)

\* C25 as stated: when the resolved function fails on the payload the call
\* fails with that function's error and the error also names the identifier.
C25_PayloadErrorNamesId ==
  PayloadFailed
  => /\ visitRes.err = ApplyDeserializeFn(Unwrap(deserialize_fn), input[1].value).err
     /\ Mentions(visitRes.err, input[1].key.data)

\* C25: when the resolved function fails on the payload the call fails with
\* exactly that function's error message, to which nothing is added: it does
\* not name the identifier.
C25_PayloadErrorUnchanged ==
  PayloadFailed
  => /\ ~visitRes.ok
     /\ visitRes.err = ApplyDeserializeFn(Unwrap(deserialize_fn), input[1].value).err
     /\ ~Mentions(visitRes.err, input[1].key.data)
     /\ ret # NoRet => ret = visitRes
C25_Witness ==
  /\ PayloadFailed
  /\ input[1].key = SerializeId("Bar")
  /\ ret = Err(<<"invalid type", "str", "expected usize">>)

\* C26: the value is read only after the key of the same call was read and
\* resolved, and the function applied to the value is the one the registry
\* holds for that key.
C26_KeyThenValue ==
  [][(valuesRead' # valuesRead \/ fnCalls' # fnCalls) /\ pc # "idle" /\ pc' # "idle"
     => /\ pc = "AwaitValue"
        /\ keysRead = 1 /\ keysRead' = 1
        /\ valuesRead = 0 /\ valuesRead' = 1
        /\ fnCalls' = fnCalls + 1
        /\ lookups = 1
        /\ input[1].key.kind = "str"
        /\ MapRegistry_get_deserialize_fn(deserialize_fns, input[1].key.data).ok
        /\ deserialize_fn
             = Some(MapRegistry_get_deserialize_fn(deserialize_fns, input[1].key.data).fn)
        /\ visitRes' = ApplyDeserializeFn(
                         MapRegistry_get_deserialize_fn(deserialize_fns, input[1].key.data).fn,
                         input[1].value)]_vars
C26_Witness ==
  /\ pc = "Done"
  /\ Len(input) = 2
  /\ input[1].key = SerializeId("Foo")
  /\ input[2].key = SerializeId("Bar")
  /\ SlotFn(deserialize_fns, "Foo") = "de_Foo"
  /\ SlotFn(deserialize_fns, "Bar") = "de_Bar"
  /\ valuesRead = 1
  /\ visitRes = Ok(FooA)

\* ------------------------------------------ properties: first failure
\* Entry i of the collection being deserialized fails: its key or its value
\* does not resolve in the registry of its side (plain sides are strings).
EntryFails(c, i) ==
  IF c.op = "seq" THEN ~Resolves(deserialize_fns, c.input[i])
  ELSE IF c.mode = "key" THEN ~Resolves(deserialize_fns, c.input[i].key)
  ELSE IF c.mode = "value" THEN ~Resolves(deserialize_fns, c.input[i].value)
  ELSE ~Resolves(c.kreg, c.input[i].key) \/ ~Resolves(deserialize_fns, c.input[i].value)
\* The error of the failing entry i: that of its key if the key fails,
\* otherwise that of its value.
EntryError(c, i) ==
  IF c.op = "seq" THEN VisitOutcome(deserialize_fns, trait_object_name, c.input[i]).err
  ELSE IF c.mode = "key"
  THEN VisitOutcome(deserialize_fns, trait_object_name, c.input[i].key).err
  ELSE IF c.mode = "value"
  THEN VisitOutcome(deserialize_fns, trait_object_name, c.input[i].value).err
  ELSE IF ~Resolves(c.kreg, c.input[i].key)
  THEN VisitOutcome(c.kreg, KeyObjName, c.input[i].key).err
  ELSE VisitOutcome(deserialize_fns, trait_object_name, c.input[i].value).err

\* C27: when an element, key or value of a sequence or map fails to
\* deserialize, the adapter returns the error of the first such entry, has
\* read nothing beyond it and returns no collection; when none fails it
\* returns a collection.
C27_FirstFailurePropagates ==
  (coll.op \in {"seq", "map"} /\ ~coll.out.panic)
  => /\ coll.out.ok <=> \A i \in 1..Len(coll.input) : ~EntryFails(coll, i)
     /\ \A i \in 1..Len(coll.input) :
          (EntryFails(coll, i) /\ \A j \in 1..(i - 1) : ~EntryFails(coll, j))
          => /\ ~coll.out.ok
             /\ coll.out.err = EntryError(coll, i)
             /\ coll.out.read = i
             /\ coll.out.val = <<>>
C27_Witness ==
  /\ coll.op = "seq"
  /\ coll.input = <<SerializeTraitObject_serialize("Foo", FooA),
                    SerializeTraitObject_serialize("Bar", Bar0)>>
  /\ Resolves(deserialize_fns, coll.input[1])
  /\ coll.out.err = GetError_fmt(NotRegistered("Bar"))
  /\ coll.out.read = 2
  /\ coll.out.val = <<>>

\* ------------------------------------------ properties: map consumption
\* C28: every permissive decode of an id-value pair that returns success has
\* taken exactly one key and then exactly one value from the map, also when
\* it returns None for an identifier that is not registered.
C28_OneKeyOneValueConsumed ==
  (perm.op = "one" /\ perm.visit.res.ok)
  => /\ perm.visit.keys = 1
     /\ perm.visit.values = 1

\* ------------------------------------------------- registration order
MaxListLen == 3

\* A list of register calls, and the registry they build when made in order.
Registrations == [id : Ids, f : Fns]
RECURSIVE MapRegistry_from(_)
MapRegistry_from(list) ==
  IF Len(list) = 0 THEN MapRegistry_new
  ELSE MapRegistry_register(MapRegistry_from(SubSeq(list, 1, Len(list) - 1)),
                            list[Len(list)].id, list[Len(list)].f)
RECURSIVE FirstMapRegistry_from(_)
FirstMapRegistry_from(list) ==
  IF Len(list) = 0 THEN <<>>
  ELSE FirstMapRegistry_register(FirstMapRegistry_from(SubSeq(list, 1, Len(list) - 1)),
                                 list[Len(list)].id, list[Len(list)].f)
Permuted(list, p) == [i \in 1..Len(list) |-> list[p[i]]]

\* The same register calls made in list order and in the order p, on a
\* MapRegistry and on a FirstMapRegistry.
register_in_order(list, p) ==
  /\ ordering.op = "none"
  /\ ordering' = [op |-> "built", list |-> list, permuted |-> Permuted(list, p),
                  map |-> MapRegistry_from(list),
                  map_permuted |-> MapRegistry_from(Permuted(list, p)),
                  first |-> FirstMapRegistry_from(list),
                  first_permuted |-> FirstMapRegistry_from(Permuted(list, p))]
  /\ UNCHANGED <<regVars, serVars, deVars, coll, perm, first_fns, first_calls, first, enc,
                 phase, readers, r2_fns, two, ident>>

\* The registries are dropped.
order_finish ==
  /\ ordering.op # "none"
  /\ ordering' = NoCall
  /\ UNCHANGED <<regVars, serVars, deVars, coll, perm, first_fns, first_calls, first, enc,
                 phase, readers, r2_fns, two, ident>>

NextOrder ==
  \/ \E list \in SeqsUpTo(Registrations, MaxListLen) :
       \E p \in Orders(1..Len(list)) : register_in_order(list, p)
  \/ order_finish

SpecOrder == Init /\ [][NextOrder]_vars

\* The function of the first registration for id in a list, "none" if none.
FirstFnIn(list, id) ==
  IF \E i \in 1..Len(list) : list[i].id = id
  THEN list[CHOOSE i \in 1..Len(list) :
              list[i].id = id /\ \A j \in 1..(i - 1) : list[j].id # id].f
  ELSE "none"

\* C29: the MapRegistry built from a list of registrations answers
\* get_deserialize_fn for every identifier as the MapRegistry built from any
\* permutation of the list does; a FirstMapRegistry answers with the function
\* of the first registration for the identifier in the order used, so that for
\* an identifier registered with two functions the answer follows the order.
C29_OrderIndependence ==
  ordering.op = "built"
  => \A id \in Ids :
       /\ MapRegistry_get_deserialize_fn(ordering.map, id)
            = MapRegistry_get_deserialize_fn(ordering.map_permuted, id)
       /\ FirstMapRegistry_get_deserialize_fn(ordering.first, id).fn
            = FirstFnIn(ordering.list, id)
       /\ FirstMapRegistry_get_deserialize_fn(ordering.first_permuted, id).fn
            = FirstFnIn(ordering.permuted, id)
C29_Witness ==
  /\ ordering.op = "built"
  /\ ordering.list = <<[id |-> "Foo", f |-> "de_Foo"], [id |-> "Bar", f |-> "de_Bar"],
                       [id |-> "Foo", f |-> "de_Bar"]>>
  /\ ordering.permuted[1] = [id |-> "Foo", f |-> "de_Bar"]
  /\ MapRegistry_get_deserialize_fn(ordering.map_permuted, "Foo").err
       = MultipleRegistrations("Foo")
  /\ MapRegistry_get_deserialize_fn(ordering.map_permuted, "Bar").fn = "de_Bar"
  /\ FirstMapRegistry_get_deserialize_fn(ordering.first, "Foo").fn = "de_Foo"
  /\ FirstMapRegistry_get_deserialize_fn(ordering.first_permuted, "Foo").fn = "de_Bar"

\* ------------------------------------------------------------------ Ident
MaxSegLen == 1
MaxTypeDepth == 2
MaxArrayLen == 2

\* const SEPARATOR: char = '/'; strings are sequences of characters.
SEPARATOR == "/"
SegChars == {"x", "y"}
Segments == SeqsUpTo(SegChars, MaxSegLen)

\* Ident::I1(a), Ident::I2(a, b), Ident::I3(a, b, c): the sequence of the
\* segments; the empty sequence stands for a panic in const evaluation.
Ident_I1(a) == <<a>>
Ident_I2(a, b) == <<a, b>>
Ident_I3(a, b, c) == <<a, b, c>>
IdentPanic == <<>>
Idents ==
  {Ident_I1(a) : a \in Segments}
    \cup {Ident_I2(a, b) : a \in Segments, b \in Segments}
    \cup {Ident_I3(a, b, c) : a \in Segments, b \in Segments, c \in Segments}

\* Display for Ident, used by Serialize through collect_str.
Ident_fmt(id) ==
  IF Len(id) = 1 THEN id[1]
  ELSE IF Len(id) = 2 THEN id[1] \o <<SEPARATOR>> \o id[2]
  ELSE id[1] \o <<SEPARATOR>> \o id[2] \o <<SEPARATOR>> \o id[3]

\* str::find(char): the byte index of the first occurrence.
str_find(str, c) ==
  IF \E i \in 1..Len(str) : str[i] = c
  THEN Some((CHOOSE i \in 1..Len(str) : str[i] = c /\ \A j \in 1..(i - 1) : str[j] # c) - 1)
  ELSE None
\* str::split_at(mid) and &str[1..]
str_split_at(str, mid) == <<SubSeq(str, 1, mid), SubSeq(str, mid + 1, Len(str))>>
str_from1(str) == SubSeq(str, 2, Len(str))

\* Deserialize for Ident
Ident_deserialize(str) ==
  IF IsSome(str_find(str, SEPARATOR))
  THEN LET idx_a == Unwrap(str_find(str, SEPARATOR))
           a == str_split_at(str, idx_a)[1]
           b == str_split_at(str, idx_a)[2]
           b_no_sep == str_from1(b)
       IN  IF IsSome(str_find(b_no_sep, SEPARATOR))
           THEN LET idx_b == Unwrap(str_find(b_no_sep, SEPARATOR))
                    b2 == str_split_at(str, idx_b)[1]
                    c == str_split_at(str, idx_b)[2]
                    c_no_sep == str_from1(c)
                IN  Ident_I3(a, b2, c_no_sep)
           ELSE Ident_I2(a, b_no_sep)
  ELSE Ident_I1(str)

\* Ident::append and Ident::extend
Ident_append(self, other) ==
  IF Len(self) \in {1, 2} THEN Append(self, other) ELSE IdentPanic
Ident_extend(self, other) ==
  IF <<Len(self), Len(other)>> \in {<<1, 1>>, <<2, 1>>, <<1, 2>>} THEN self \o other
  ELSE IdentPanic

\* Types with an Id impl: a constructor, the length of an array type and the
\* type arguments.
Ty(c, n, args) == [c |-> c, n |-> n, args |-> args]
PrimTypes == {"u8", "String", "str"}
UnsizedCtors == {"str", "[T]"}
UnaryCtors ==
  {"[T]", "&T", "&mut T", "&[T]", "&mut [T]", "Option", "Box", "Rc", "Arc", "Vec"}
IsSized(t) == t.c \notin UnsizedCtors

\* The first segment an impl starts the ID of its type with.
CtorSegment(c) ==
  IF c \in {"[T]", "[T; N]"} THEN "[]"
  ELSE IF c = "&T" THEN "&"
  ELSE IF c = "&mut T" THEN "&mut"
  ELSE IF c = "&[T]" THEN "&[]"
  ELSE IF c = "&mut [T]" THEN "&mut []"
  ELSE c

\* <T as Id>::ID
RECURSIVE Id_ID(_)
Id_ID(t) ==
  IF t.c \in PrimTypes THEN Ident_I1(t.c)
  ELSE IF t.c = "[T; N]"
  THEN Ident_extend(Ident_append(Ident_I1("[]"), "N"), Id_ID(t.args[1]))
  ELSE IF t.c = "Result"
  THEN Ident_extend(Ident_extend(Ident_I1("Result"), Id_ID(t.args[1])), Id_ID(t.args[2]))
  ELSE Ident_extend(Ident_I1(CtorSegment(t.c)), Id_ID(t.args[1]))

\* The types whose ID evaluates, built from primitives in at most d steps;
\* type arguments are Sized.
RECURSIVE TypesUpTo(_)
TypesUpTo(d) ==
  IF d = 0 THEN {Ty(p, 0, <<>>) : p \in PrimTypes}
  ELSE LET inner == TypesUpTo(d - 1)
           sized == {t \in inner : IsSized(t)}
           built == {Ty(c, 0, <<t>>) : c \in UnaryCtors, t \in sized}
                      \cup {Ty("[T; N]", n, <<t>>) : n \in 1..MaxArrayLen, t \in sized}
                      \cup {Ty("Result", 0, <<t, e>>) : t \in sized, e \in sized}
       IN  inner \cup {t \in built : Id_ID(t) # IdentPanic}
Types == TypesUpTo(MaxTypeDepth)

\* An Ident is serialized and the string deserialized.
ident_roundtrip(id) ==
  /\ ident.op = "none"
  /\ ident' = [op |-> "roundtrip", id |-> id, str |-> Ident_fmt(id),
               out |-> Ident_deserialize(Ident_fmt(id))]
  /\ UNCHANGED <<regVars, serVars, deVars, coll, perm, first_fns, first_calls, first, enc,
                 phase, readers, r2_fns, two, ordering>>

\* T::ID is evaluated for a type.
ident_type_id(t) ==
  /\ ident.op = "none"
  /\ ident' = [op |-> "id", ty |-> t, out |-> Id_ID(t)]
  /\ UNCHANGED <<regVars, serVars, deVars, coll, perm, first_fns, first_calls, first, enc,
                 phase, readers, r2_fns, two, ordering>>

\* The Ident is dropped.
ident_finish ==
  /\ ident.op # "none"
  /\ ident' = NoCall
  /\ UNCHANGED <<regVars, serVars, deVars, coll, perm, first_fns, first_calls, first, enc,
                 phase, readers, r2_fns, two, ordering>>

NextIdent ==
  \/ \E id \in Idents : ident_roundtrip(id)
  \/ \E t \in Types : ident_type_id(t)
  \/ ident_finish

SpecIdent == Init /\ [][NextIdent]_vars

\* C23: an Ident of one, two or three segments without the separator,
\* serialized to its string and deserialized from it, is the Ident itself.
C23_IdentRoundTrip ==
  ident.op = "roundtrip" => ident.out = ident.id

\* C30: the ID of a type differs from the ID of every other type with an Id
\* impl, arrays of another length or element type included, and has one to
\* three segments.
C30_DistinctTypeIds ==
  ident.op = "id"
  => /\ Len(ident.out) \in 1..3
     /\ \A t \in Types : t # ident.ty => Id_ID(t) # ident.out

====
